---- MODULE Spec2Model ----
(***************************************************************************)
(* Model of the yrs-persistence document store: the LmdbPersistence facade *)
(* (src/src/lib.rs) over an ordered byte-keyed store, the key codec, the   *)
(* OID registry, the update log and the snapshot / state-vector cache.     *)
(* Keys and values are byte strings (sequences of 0..255).                 *)
(***************************************************************************)
EXTENDS Integers, Sequences, FiniteSets, TLC

VARIABLES
    store,   \* committed content of the database: its entries <<key, value>>
             \* in ascending byte order of the keys
    op,      \* the last writing call of the facade: <<name, arguments...>>
    ret,     \* what that call returned
    nops,    \* number of writing calls so far
    backend, \* how the engine treats write transactions that overlap
    txn,     \* the write transactions in progress, per caller
    pushed   \* history: the updates pushed under each name, as recorded by
             \* the specification of compaction

vars == <<store, op, ret, nops, backend, txn, pushed>>

----------------------------------------------------------------------------
(* Bounds of the model *)

\* CRDT blocks a writer can produce (clocks 1..MaxAtom of one client)
MaxAtom == 2
\* longest update log a document is pushed to
MaxLog == 2
\* number of writing calls of one run
MaxOps == 3
\* number of pushes and flushes of one run on a single document
MaxCompactOps == 6
\* number of entries past the declared end that a range scan may yield
MaxExtra == 1

----------------------------------------------------------------------------
(* Bytes and byte strings *)

\* A u32 is the pair <<high 16 bits, low 16 bits>> of its value
U32(n) == << n \div 65536, n % 65536 >>
U32_ZERO == U32(0)
U32_MAX == << 65535, 65535 >>

\* x + 1 on u32, wrapping at the 32-bit maximum
u32_inc(x) ==
    IF x[2] < 65535 THEN << x[1], x[2] + 1 >>
    ELSE << (x[1] + 1) % 65536, 0 >>

Min(a, b) == IF a < b THEN a ELSE b

\* byte-wise lexicographic order of &[u8], a < b
RECURSIVE KeyLTFrom(_, _, _)
KeyLTFrom(a, b, i) ==
    IF i > Len(b) THEN FALSE
    ELSE IF i > Len(a) THEN TRUE
    ELSE IF a[i] # b[i] THEN a[i] < b[i]
    ELSE KeyLTFrom(a, b, i + 1)

\* byte-wise order of &[u8] with the bytes compared as signed
RECURSIVE KeyLTSignedFrom(_, _, _)
KeyLTSignedFrom(a, b, i) ==
    IF i > Len(b) THEN FALSE
    ELSE IF i > Len(a) THEN TRUE
    ELSE IF a[i] # b[i] THEN ((a[i] + 128) % 256) < ((b[i] + 128) % 256)
    ELSE KeyLTSignedFrom(a, b, i + 1)

KeyLT_signed(a, b) == KeyLTSignedFrom(a, b, 1)

KeyLT(a, b) == KeyLTFrom(a, b, 1)

KeyLE(a, b) == a = b \/ KeyLT(a, b)

\* u32::to_be_bytes
to_be_bytes(x) == << x[1] \div 256, x[1] % 256, x[2] \div 256, x[2] % 256 >>

\* u32::from_le_bytes
from_le_bytes(b) == << b[4] * 256 + b[3], b[2] * 256 + b[1] >>

\* u32::from_be_bytes
from_be_bytes(b) == << b[1] * 256 + b[2], b[3] * 256 + b[4] >>

\* Option<T>
None == <<>>
Some(x) == <<x>>
IsSome(o) == Len(o) = 1
Unwrap(o) == o[1]

----------------------------------------------------------------------------
(* Key codec: fixed-layout byte keys of the two namespaces *)

V1 == 0
KEYSPACE_OID == 0
KEYSPACE_DOC == 1
SUB_DOC == 0
SUB_STATE_VEC == 1
SUB_UPDATE == 2
SUB_META == 3
TERMINATOR == 0
TERMINATOR_HI_WATERMARK == 255

\* name -> OID namespace: [version][NS_NAME][document-name bytes][terminator]
key_oid(doc_name) == <<V1, KEYSPACE_OID>> \o doc_name \o <<TERMINATOR>>

\* document namespace, Snapshot: [version][NS_DOC][OID:4][SNAPSHOT][terminator]
key_doc(oid) == <<V1, KEYSPACE_DOC>> \o to_be_bytes(oid) \o <<SUB_DOC, TERMINATOR>>

\* document namespace, StateVector
key_state_vector(oid) ==
    <<V1, KEYSPACE_DOC>> \o to_be_bytes(oid) \o <<SUB_STATE_VEC, TERMINATOR>>

\* document namespace, update log entry: clock as 4 bytes big-endian
key_update(oid, clock) ==
    <<V1, KEYSPACE_DOC>> \o to_be_bytes(oid) \o <<SUB_UPDATE>>
        \o to_be_bytes(clock) \o <<TERMINATOR>>

\* document namespace, metadata entry
key_meta(oid, meta_key) ==
    <<V1, KEYSPACE_DOC>> \o to_be_bytes(oid) \o <<SUB_META>> \o meta_key \o <<TERMINATOR>>

\* doc_bounds(oid): low = subtype minimum, high = subtype maximum byte
key_doc_start(oid) == <<V1, KEYSPACE_DOC>> \o to_be_bytes(oid) \o <<TERMINATOR>>
key_doc_end(oid) ==
    <<V1, KEYSPACE_DOC>> \o to_be_bytes(oid) \o <<TERMINATOR_HI_WATERMARK>>

\* meta_bounds(oid)
key_meta_start(oid) ==
    <<V1, KEYSPACE_DOC>> \o to_be_bytes(oid) \o <<SUB_META, TERMINATOR>>
key_meta_end(oid) ==
    <<V1, KEYSPACE_DOC>> \o to_be_bytes(oid) \o <<SUB_META, TERMINATOR_HI_WATERMARK>>

\* the name inside a name-namespace key, by fixed-offset slicing
doc_oid_name(key) == SubSeq(key, 3, Len(key) - 1)

\* the meta key inside a META key, by fixed-offset slicing
doc_meta_name(key) == SubSeq(key, 8, Len(key) - 1)

----------------------------------------------------------------------------
(* The LMDB database as used by the facade: db is the sequence of its     *)
(* entries <<key, value>>, ordered by key as the B-tree keeps them.        *)

\* CursorValue::get_key, CursorValue::get_value
get_key(entry) == entry[1]
get_value(entry) == entry[2]

\* the keys stored in db
Keys(db) == { get_key(db[i]) : i \in 1..Len(db) }

\* results of the backend (MdbResult): a value, or an error code
MdbOk(value) == <<"Ok", value>>
MdbErr(code) == <<"Err", code>>
NotFound == "NotFound"

\* optional turning every error into Ok(None)
optional_swallow(result) ==
    IF result[1] = "Ok" THEN MdbOk(Some(result[2])) ELSE MdbOk(None)

\* OptionalNotFound::optional: NotFound becomes Ok(None), a value Ok(Some),
\* any other error stays the error
optional(result) ==
    IF result[1] = "Ok" THEN MdbOk(Some(result[2]))
    ELSE IF result[2] = NotFound THEN MdbOk(None)
    ELSE result

\* Database::get of lmdb-rs: the value at key, or NotFound
mdb_get(db, key) ==
    LET hit == SelectSeq(db, LAMBDA e : get_key(e) = key)
    IN IF hit = <<>> THEN MdbErr(NotFound) ELSE MdbOk(get_value(hit[1]))

\* db.get(&key).optional()?: the value at key, if any
db_get(db, key) == optional(mdb_get(db, key))[2]

\* Database::set: put of one pair, replacing what the key held
db_put(db, key, value) ==
    SelectSeq(db, LAMBDA e : KeyLT(get_key(e), key))
        \o << <<key, value>> >>
        \o SelectSeq(db, LAMBDA e : KeyLT(key, get_key(e)))

\* Database::del
db_del(db, key) == SelectSeq(db, LAMBDA e : get_key(e) # key)

\* Database::keyrange(start, end): the entries with keys between start and
\* end, both inclusive, in ascending key order
keyrange(db, start, end) ==
    SelectSeq(db, LAMBDA e : KeyLE(start, get_key(e)) /\ KeyLE(get_key(e), end))

\* Cursor::to_gte_key(key).optional().is_some(): some stored key is >= key
to_gte_key(db, key) == \E i \in 1..Len(db) : KeyLE(key, get_key(db[i]))

\* Database::del of every entry of a sequence, one by one
RECURSIVE db_del_all(_, _)
db_del_all(db, entries) ==
    IF entries = <<>> THEN db
    ELSE db_del_all(db_del(db, get_key(Head(entries))), Tail(entries))

----------------------------------------------------------------------------
(* The CRDT runtime as consumed by the store.  A document is the set of    *)
(* blocks it has integrated; an update is a set of blocks; applying is     *)
(* union (commutative and idempotent).  The state vector of a document is  *)
(* the clock up to which its blocks are contiguous.                        *)

Atoms == 1..MaxAtom
Docs == SUBSET Atoms

RECURSIVE SortInts(_)
SortInts(S) ==
    IF S = {} THEN <<>>
    ELSE LET m == CHOOSE k \in S : \A o \in S : k <= o
         IN <<m>> \o SortInts(S \ {m})

\* Doc::new()
NewDoc == {}

\* TransactionMut::apply_update
apply_update(doc, update) == doc \cup update

\* ReadTxn::state_vector
state_vector(doc) ==
    CHOOSE n \in 0..MaxAtom :
        /\ \A a \in 1..n : a \in doc
        /\ (n + 1) \notin doc

\* the blocks of doc that sv does not cover
diff_blocks(doc, sv) == {a \in doc : a > sv}

\* the byte encoding of an update: block count, then the blocks ascending
encode_update(blocks) == <<Cardinality(blocks)>> \o SortInts(blocks)

\* Update::decode_v1
decode_update(bytes) == { bytes[i] : i \in 2..Len(bytes) }

\* ReadTxn::encode_diff_v1
encode_diff_v1(doc, sv) == encode_update(diff_blocks(doc, sv))

\* StateVector::default()
EmptyStateVector == 0

\* StateVector::encode_v1: number of clients, then the client's clock
encode_sv(sv) == IF sv = 0 THEN <<0>> ELSE <<1, sv>>

\* StateVector::decode_v1
decode_sv(bytes) == IF bytes[1] = 0 THEN 0 ELSE bytes[2]

----------------------------------------------------------------------------
(* Helpers of the facade working inside one database transaction *)

\* the last entry of the name -> OID namespace, if any
last_oid_entry(db) ==
    LET names == keyrange(db, <<V1, KEYSPACE_OID>>, <<V1, KEYSPACE_DOC>>)
    IN IF names = <<>> THEN None ELSE Some(names[Len(names)])

\* lookup(name): point get on the name key
get_oid(db, doc_name) ==
    LET v == db_get(db, key_oid(doc_name))
    IN IF IsSome(v) THEN Some(from_be_bytes(Unwrap(v))) ELSE None

\* what get_or_create_oid takes for the next OID: the OID stored at the
\* lexicographically last entry of the name -> OID namespace, plus one
next_oid(db) ==
    LET last == last_oid_entry(db)
    IN IF IsSome(last) THEN u32_inc(from_be_bytes(get_value(Unwrap(last)))) ELSE U32(1)

\* get_or_create(name): lookup; if absent persist name -> next OID
get_or_create_oid(db, doc_name) ==
    LET found == get_oid(db, doc_name)
    IN IF IsSome(found)
       THEN [db |-> db, oid |-> Unwrap(found)]
       ELSE LET new_oid == next_oid(db)
            IN [db |-> db_put(db, key_oid(doc_name), to_be_bytes(new_oid)),
                oid |-> new_oid]

\* insert(oid, full_state_bytes, state_vector_bytes): Snapshot + StateVector
insert_inner_v1(db, oid, doc_state_v1, doc_sv_v1) ==
    db_put(db_put(db, key_doc(oid), doc_state_v1), key_state_vector(oid), doc_sv_v1)

\* the update-log scan of load: applies the entries in order
RECURSIVE apply_entries(_, _)
apply_entries(entries, doc) ==
    IF entries = <<>> THEN doc
    ELSE apply_entries(Tail(entries),
                       apply_update(doc, decode_update(get_value(Head(entries)))))

\* load(oid, target_doc): the Snapshot if any, then every UPDATE record in
\* ascending clock order.  doc is the target afterwards, applied the keys
\* of the records applied in order, loaded their number
lmdb_load_doc(db, oid, target) ==
    LET snapshot == db_get(db, key_doc(oid))
        found == IsSome(snapshot)
        doc1 == IF found THEN apply_update(target, decode_update(Unwrap(snapshot)))
                ELSE target
        updates == keyrange(db, key_update(oid, U32_ZERO), key_update(oid, U32_MAX))
    IN [doc |-> apply_entries(updates, doc1),
        applied |-> (IF found THEN <<key_doc(oid)>> ELSE <<>>)
                        \o [i \in 1..Len(updates) |-> get_key(updates[i])],
        loaded |-> Len(updates) + (IF found THEN 1 ELSE 0)]

\* KVStore::remove_range of the LMDB adapter: deletes every key the range
\* scan yields, stopping at the first key above `to`
remove_range(db, from, to) ==
    db_del_all(db, keyrange(db, from, to))

\* Update Log clear(oid): removes the full update range of the OID
delete_updates(db, oid) ==
    remove_range(db, key_update(oid, U32_ZERO), key_update(oid, U32_MAX))

\* flush(oid): load into a fresh document; nothing applied: None; otherwise
\* write the new Snapshot and StateVector, then clear the update log
lmdb_flush_doc(db, oid) ==
    LET l == lmdb_load_doc(db, oid, NewDoc)
    IN IF l.loaded = 0
       THEN [db |-> db, doc |-> None]
       ELSE LET doc_state == encode_diff_v1(l.doc, EmptyStateVector)
                state_vec == encode_sv(state_vector(l.doc))
            IN [db |-> delete_updates(insert_inner_v1(db, oid, doc_state, state_vec), oid),
                doc |-> Some(l.doc)]

----------------------------------------------------------------------------
(* The facade LmdbPersistence: every call runs in one transaction over the *)
(* committed database db and yields the database it leaves committed and  *)
(* its return value.  A call that returns before commit leaves db as is.   *)

Ok == "Ok"
Err == "Err"

\* flush_doc returning the merged document with its transaction dropped
\* instead of committed
flush_doc_uncommitted(db, doc_name) ==
    LET o == get_oid(db, doc_name)
    IN IF IsSome(o)
       THEN [db |-> db, ret |-> lmdb_flush_doc(db, Unwrap(o)).doc]
       ELSE [db |-> db, ret |-> None]

\* flush_doc resolving the name with get_or_create_oid
flush_doc_creating(db, doc_name) ==
    LET c == get_or_create_oid(db, doc_name)
        f == lmdb_flush_doc(c.db, c.oid)
    IN [db |-> f.db, ret |-> f.doc]

\* flush_doc leaving the StateVector record of the document as it was
flush_doc_stale_sv(db, doc_name) ==
    LET o == get_oid(db, doc_name)
    IN IF IsSome(o)
       THEN LET f == lmdb_flush_doc(db, Unwrap(o))
                old == db_get(db, key_state_vector(Unwrap(o)))
            IN [db |-> IF IsSome(old) /\ IsSome(f.doc)
                       THEN db_put(f.db, key_state_vector(Unwrap(o)), Unwrap(old))
                       ELSE f.db,
                ret |-> f.doc]
       ELSE [db |-> db, ret |-> None]

\* LmdbPersistence::flush_doc
flush_doc(db, doc_name) ==
    LET o == get_oid(db, doc_name)
    IN IF IsSome(o)
       THEN LET f == lmdb_flush_doc(db, Unwrap(o))
            IN [db |-> f.db, ret |-> f.doc]
       ELSE [db |-> db, ret |-> None]

\* insert_doc_raw_v1 writing the Snapshot without its StateVector
insert_doc_raw_v1_snapshot_only(db, doc_name, doc_state_v1, doc_sv_v1) ==
    LET c == get_or_create_oid(db, doc_name)
    IN [db |-> db_put(c.db, key_doc(c.oid), doc_state_v1), ret |-> Ok]

\* insert_doc_raw_v1 clearing the update log after writing the Snapshot
insert_doc_raw_v1_clearing_log(db, doc_name, doc_state_v1, doc_sv_v1) ==
    LET c == get_or_create_oid(db, doc_name)
    IN [db |-> delete_updates(insert_inner_v1(c.db, c.oid, doc_state_v1, doc_sv_v1), c.oid),
        ret |-> Ok]

\* LmdbPersistence::insert_doc_raw_v1
insert_doc_raw_v1(db, doc_name, doc_state_v1, doc_sv_v1) ==
    LET c == get_or_create_oid(db, doc_name)
    IN [db |-> insert_inner_v1(c.db, c.oid, doc_state_v1, doc_sv_v1), ret |-> Ok]

\* insert_doc storing the state vector of an empty document
insert_doc_default_sv(db, doc_name, doc) ==
    LET c == get_or_create_oid(db, doc_name)
    IN [db |-> insert_inner_v1(c.db, c.oid, encode_diff_v1(doc, EmptyStateVector),
                               encode_sv(EmptyStateVector)),
        ret |-> Ok]

\* LmdbPersistence::insert_doc
insert_doc(db, doc_name, doc) ==
    LET doc_state == encode_diff_v1(doc, EmptyStateVector)
        sv == encode_sv(state_vector(doc))
    IN insert_doc_raw_v1(db, doc_name, doc_state, sv)

\* load_doc replaying the stored records into a new document in place of
\* the caller's
load_doc_into_new(db, doc_name, target) ==
    LET o == get_oid(db, doc_name)
    IN IF IsSome(o)
       THEN LET l == lmdb_load_doc(db, Unwrap(o), NewDoc)
            IN [db |-> db,
                ret |-> [found |-> l.loaded # 0, doc |-> l.doc, applied |-> l.applied]]
       ELSE [db |-> db, ret |-> [found |-> FALSE, doc |-> target, applied |-> <<>>]]

\* load_doc reporting a document as found when its name has an OID
load_doc_found_by_name(db, doc_name, target) ==
    LET o == get_oid(db, doc_name)
    IN IF IsSome(o)
       THEN LET l == lmdb_load_doc(db, Unwrap(o), target)
            IN [db |-> db,
                ret |-> [found |-> TRUE, doc |-> l.doc, applied |-> l.applied]]
       ELSE [db |-> db, ret |-> [found |-> FALSE, doc |-> target, applied |-> <<>>]]

\* LmdbPersistence::load_doc: target is the caller's document before the
\* call; returns whether anything was loaded, and the document afterwards
load_doc(db, doc_name, target) ==
    LET o == get_oid(db, doc_name)
    IN IF IsSome(o)
       THEN LET l == lmdb_load_doc(db, Unwrap(o), target)
            IN [db |-> db,
                ret |-> [found |-> l.loaded # 0, doc |-> l.doc, applied |-> l.applied]]
       ELSE [db |-> db, ret |-> [found |-> FALSE, doc |-> target, applied |-> <<>>]]

\* the pending-update probe of LmdbPersistence::get_state_vector
has_pending_updates(db, oid) == to_gte_key(db, key_update(oid, U32_ZERO))

\* get_state_vector answering from the cached StateVector record alone
get_state_vector_cached(db, doc_name) ==
    LET o == get_oid(db, doc_name)
    IN IF IsSome(o)
       THEN LET data == db_get(db, key_state_vector(Unwrap(o)))
            IN [db |-> db,
                ret |-> IF IsSome(data) THEN Some(decode_sv(Unwrap(data))) ELSE None]
       ELSE [db |-> db, ret |-> None]

\* LmdbPersistence::get_state_vector: the cached state vector, or, when the
\* probe finds pending updates, a flush and the merged document's state vector
get_state_vector(db, doc_name) ==
    LET o == get_oid(db, doc_name)
    IN IF IsSome(o)
       THEN LET oid == Unwrap(o)
                data == db_get(db, key_state_vector(oid))
                sv == IF IsSome(data) THEN Some(decode_sv(Unwrap(data))) ELSE None
            IN IF has_pending_updates(db, oid)
               THEN LET f == lmdb_flush_doc(db, oid)
                    IN [db |-> f.db,
                        ret |-> IF IsSome(f.doc) THEN Some(state_vector(Unwrap(f.doc)))
                                ELSE None]
               ELSE [db |-> db, ret |-> sv]
       ELSE [db |-> db, ret |-> None]

\* last_clock scanning up to the end of the document range instead of the
\* end of the update range
last_clock_doc_range(db, oid) ==
    LET iter == keyrange(db, key_update(oid, U32_ZERO), key_doc_end(oid))
    IN IF iter # <<>>
       THEN LET last_key == get_key(iter[Len(iter)])
                len == Len(last_key)
            IN from_be_bytes(SubSeq(last_key, len - 4, len - 1))
       ELSE U32_ZERO

\* the clock push_update reads from the last key of the update range
last_clock(db, oid) ==
    LET iter == keyrange(db, key_update(oid, U32_ZERO), key_update(oid, U32_MAX))
    IN IF iter # <<>>
       THEN LET last_key == get_key(iter[Len(iter)])
                len == Len(last_key)
            IN from_be_bytes(SubSeq(last_key, len - 4, len - 1))
       ELSE U32_ZERO

\* push_update committing the OID without the update record
push_update_dropped(db, doc_name, update) ==
    [db |-> get_or_create_oid(db, doc_name).db, ret |-> Ok]

\* push_update writing every update at clock 1, replacing what is there
push_update_fixed_clock(db, doc_name, update) ==
    LET c == get_or_create_oid(db, doc_name)
    IN [db |-> db_put(c.db, key_update(c.oid, U32(1)), update), ret |-> Ok]

\* LmdbPersistence::push_update; Database::insert refuses an existing key
push_update(db, doc_name, update) ==
    LET c == get_or_create_oid(db, doc_name)
        update_key == key_update(c.oid, u32_inc(last_clock(c.db, c.oid)))
    IN IF update_key \in Keys(c.db)
       THEN [db |-> db, ret |-> Err]
       ELSE [db |-> db_put(c.db, update_key, update), ret |-> Ok]

\* get_diff encoding the whole document whatever the state vector
get_diff_full(db, doc_name, sv) ==
    LET o == get_oid(db, doc_name)
        l == IF IsSome(o) THEN lmdb_load_doc(db, Unwrap(o), NewDoc)
             ELSE [doc |-> NewDoc, applied |-> <<>>, loaded |-> 0]
    IN IF l.loaded # 0
       THEN [db |-> db, ret |-> Some(encode_diff_v1(l.doc, EmptyStateVector))]
       ELSE [db |-> db, ret |-> None]

\* LmdbPersistence::get_diff
get_diff(db, doc_name, sv) ==
    LET l == load_doc(db, doc_name, NewDoc)
    IN IF l.ret.found
       THEN [db |-> db, ret |-> Some(encode_diff_v1(l.ret.doc, sv))]
       ELSE [db |-> db, ret |-> None]

\* the range deletion of LmdbPersistence::clear_doc: every key the scan of
\* [start, end] yields is deleted, the scan stopping at a key above end
clear_range(db, start, end) ==
    LET scanned == keyrange(db, start, end)
    IN db_del_all(db, SelectSeq(scanned, LAMBDA v : ~KeyLT(end, get_key(v))))

\* clear_doc deleting the name -> OID mapping and none of the OID's records
clear_doc_name_only(db, doc_name) ==
    [db |-> db_del(db, key_oid(doc_name)), ret |-> Ok]

\* clear_doc deleting the name -> OID mapping, the Snapshot, the StateVector
\* and the update log, and leaving the metadata of the OID
clear_doc_keeping_meta(db, doc_name) ==
    LET v == db_get(db, key_oid(doc_name))
    IN IF IsSome(v)
       THEN LET oid == from_be_bytes(Unwrap(v))
                db1 == db_del(db, key_oid(doc_name))
            IN [db |-> clear_range(db1, key_doc_start(oid), key_update(oid, U32_MAX)),
                ret |-> Ok]
       ELSE [db |-> db, ret |-> Ok]

\* LmdbPersistence::clear_doc
clear_doc(db, doc_name) ==
    LET v == db_get(db, key_oid(doc_name))
    IN IF IsSome(v)
       THEN LET oid == from_be_bytes(Unwrap(v))
                db1 == db_del(db, key_oid(doc_name))
            IN [db |-> clear_range(db1, key_doc_start(oid), key_doc_end(oid)), ret |-> Ok]
       ELSE [db |-> db, ret |-> Ok]

\* LmdbPersistence::get_meta
get_meta(db, doc_name, meta_key) ==
    LET o == get_oid(db, doc_name)
    IN IF IsSome(o)
       THEN [db |-> db, ret |-> db_get(db, key_meta(Unwrap(o), meta_key))]
       ELSE [db |-> db, ret |-> None]

\* LmdbPersistence::insert_meta
insert_meta(db, doc_name, meta_key, meta) ==
    LET c == get_or_create_oid(db, doc_name)
        key == key_meta(c.oid, meta_key)
    IN [db |-> db_put(c.db, key, meta), ret |-> db_get(c.db, key)]

\* remove_meta resolving the name with get_or_create_oid
remove_meta_creating(db, doc_name, meta_key) ==
    LET c == get_or_create_oid(db, doc_name)
        key == key_meta(c.oid, meta_key)
    IN [db |-> db_del(c.db, key), ret |-> db_get(c.db, key)]

\* LmdbPersistence::remove_meta
remove_meta(db, doc_name, meta_key) ==
    LET o == get_oid(db, doc_name)
    IN IF IsSome(o)
       THEN LET key == key_meta(Unwrap(o), meta_key)
            IN [db |-> db_del(db, key), ret |-> db_get(db, key)]
       ELSE [db |-> db, ret |-> None]

\* iter_docs scanning from the start of the name namespace to the end of
\* the document namespace
iter_docs_unbounded(db) ==
    LET keys == keyrange(db, <<V1, KEYSPACE_OID>>, <<V1, KEYSPACE_DOC, TERMINATOR_HI_WATERMARK>>)
    IN [db |-> db, ret |-> [i \in 1..Len(keys) |-> doc_oid_name(get_key(keys[i]))]]

\* DocsNameIter: the names of the whole name -> OID namespace in key order
iter_docs(db) ==
    LET keys == keyrange(db, <<V1, KEYSPACE_OID>>, <<V1, KEYSPACE_DOC>>)
    IN [db |-> db, ret |-> [i \in 1..Len(keys) |-> doc_oid_name(get_key(keys[i]))]]

\* MetadataIter: the (meta key, value) pairs of the metadata range of the
\* document, in key order; nothing for a name without OID
iter_meta(db, doc_name) ==
    LET o == get_oid(db, doc_name)
    IN IF IsSome(o)
       THEN LET cursor == keyrange(db, key_meta_start(Unwrap(o)), key_meta_end(Unwrap(o)))
            IN [db |-> db,
                ret |-> [i \in 1..Len(cursor) |->
                            <<doc_meta_name(get_key(cursor[i])), get_value(cursor[i])>>]]
       ELSE [db |-> db, ret |-> <<>>]

\* get_state_vector of the document store (the later, flag-returning
\* variant): the cached StateVector and whether the update log is empty
DocOps_get_state_vector(db, doc_name) ==
    LET o == get_oid(db, doc_name)
    IN IF IsSome(o)
       THEN LET oid == Unwrap(o)
                data == db_get(db, key_state_vector(oid))
                sv == IF IsSome(data) THEN Some(decode_sv(Unwrap(data))) ELSE None
                pending == keyrange(db, key_update(oid, U32_ZERO), key_update(oid, U32_MAX))
            IN [db |-> db, ret |-> <<sv, pending = <<>> >>]
       ELSE [db |-> db, ret |-> <<None, TRUE>>]

----------------------------------------------------------------------------
(* Inputs of the calls *)

\* document names "A", "B", "C"
Names == { <<65>>, <<66>>, <<67>> }
\* the updates a writer pushes: one block each
UpdatePool == { encode_update({a}) : a \in Atoms }
\* the documents a writer inserts: its blocks so far
InsertPool == { 1..n : n \in 0..MaxAtom }
\* the content of the caller's document before a load
TargetPool == { NewDoc, {MaxAtom} }
\* state vectors a caller asks a diff against
SvPool == 0..MaxAtom
\* metadata keys and values
MetaKeys == { <<107>> }
MetaValues == { <<118>> }

EmptyDb == <<>>

\* the callers that may hold a write transaction at the same time
TxnIds == {1, 2, 3}
\* no caller has begun a transaction
NoTxn == [t \in TxnIds |-> [pc |-> "idle"]]
\* nothing was pushed under any name
NoPushes == [n \in Names |-> {}]

\* the update log of an OID: the keys of its UPDATE records, ascending
update_log(db, oid) ==
    keyrange(db, key_update(oid, U32_ZERO), key_update(oid, U32_MAX))

----------------------------------------------------------------------------
(* The state machine: one action per facade call *)

Init ==
    /\ store = EmptyDb
    /\ op = <<"new">>
    /\ ret = Ok
    /\ nops = 0
    /\ backend = "serialized"
    /\ txn = NoTxn
    /\ pushed = NoPushes

\* a writing call ran as `result`: its transaction is committed (or dropped
\* when it returned before commit) and the call returns
Write(call, result) ==
    /\ nops < MaxOps
    /\ \E r \in {result} :
        /\ store' = r.db
        /\ ret' = r.ret
    /\ op' = call
    /\ nops' = nops + 1
    /\ UNCHANGED <<backend, txn, pushed>>

\* a call over a read transaction ran as `result`: nothing is committed
Read(result) ==
    /\ result.db = store
    /\ UNCHANGED vars

Call_flush_doc ==
    \E n \in Names : Write(<<"flush_doc", n>>, flush_doc(store, n))

Call_insert_doc ==
    \E n \in Names, d \in InsertPool :
        Write(<<"insert_doc", n, d>>, insert_doc(store, n, d))

Call_load_doc ==
    \E n \in Names, t \in TargetPool : Read(load_doc(store, n, t))

Call_get_state_vector ==
    \E n \in Names : Write(<<"get_state_vector", n>>, get_state_vector(store, n))

Call_push_update ==
    \E n \in Names, u \in UpdatePool :
        /\ nops < MaxOps
        /\ LET c == get_or_create_oid(store, n)
           IN Len(update_log(c.db, c.oid)) < MaxLog
        /\ Write(<<"push_update", n, u>>, push_update(store, n, u))

Call_get_diff ==
    \E n \in Names, sv \in SvPool : Read(get_diff(store, n, sv))

Call_clear_doc ==
    \E n \in Names : Write(<<"clear_doc", n>>, clear_doc(store, n))

Call_get_meta ==
    \E n \in Names, k \in MetaKeys : Read(get_meta(store, n, k))

Call_insert_meta ==
    \E n \in Names, k \in MetaKeys, v \in MetaValues :
        Write(<<"insert_meta", n, k, v>>, insert_meta(store, n, k, v))

Call_remove_meta ==
    \E n \in Names, k \in MetaKeys :
        Write(<<"remove_meta", n, k>>, remove_meta(store, n, k))

Call_iter_docs == Read(iter_docs(store))

Call_iter_meta ==
    \E n \in Names : Read(iter_meta(store, n))

Call_DocOps_get_state_vector ==
    \E n \in Names : Read(DocOps_get_state_vector(store, n))

Next ==
    \/ Call_flush_doc
    \/ Call_insert_doc
    \/ Call_load_doc
    \/ Call_get_state_vector
    \/ Call_push_update
    \/ Call_get_diff
    \/ Call_clear_doc
    \/ Call_get_meta
    \/ Call_insert_meta
    \/ Call_remove_meta
    \/ Call_iter_docs
    \/ Call_iter_meta
    \/ Call_DocOps_get_state_vector

Spec == Init /\ [][Next]_vars

----------------------------------------------------------------------------
(* Vocabulary of the properties: what the store holds, read off the keys   *)
(* without the range scans of the code.                                     *)

\* the OID the name maps to, when it has a mapping
Mapped(db, n) == key_oid(n) \in Keys(db)
OidOf(db, n) == Unwrap(get_oid(db, n))

\* key belongs to the document namespace of oid
IsDocKeyOf(key, oid) ==
    /\ Len(key) >= 7
    /\ SubSeq(key, 1, 6) = <<V1, KEYSPACE_DOC>> \o to_be_bytes(oid)

\* key is an update-log key of oid
IsUpdateKeyOf(key, oid) == IsDocKeyOf(key, oid) /\ key[7] = SUB_UPDATE

\* key is a metadata key of oid
IsMetaKeyOf(key, oid) == IsDocKeyOf(key, oid) /\ key[7] = SUB_META

\* the clock written in an update-log key
ClockOf(key) == from_be_bytes(SubSeq(key, 8, 11))

\* numeric order of u32
U32LT(a, b) == a[1] < b[1] \/ (a[1] = b[1] /\ a[2] < b[2])

HasSnapshot(db, oid) == key_doc(oid) \in Keys(db)
HasStateVector(db, oid) == key_state_vector(oid) \in Keys(db)
UpdateEntries(db, oid) == { db[i] : i \in { j \in 1..Len(db) : IsUpdateKeyOf(get_key(db[j]), oid) } }
LogSize(db, oid) == Cardinality(UpdateEntries(db, oid))

\* the blocks of the Snapshot of oid (none without a Snapshot)
SnapshotBlocks(db, oid) ==
    UNION { decode_update(get_value(db[i])) : i \in { j \in 1..Len(db) : get_key(db[j]) = key_doc(oid) } }

\* the blocks of all update-log entries of oid
LogBlocks(db, oid) == UNION { decode_update(get_value(e)) : e \in UpdateEntries(db, oid) }

\* the merge of the Snapshot (if any) with all log entries of oid
Merged(db, oid) == SnapshotBlocks(db, oid) \cup LogBlocks(db, oid)

----------------------------------------------------------------------------
(* C1 *)

\* C1: in every reachable state no two names that have a mapping map to
\* the same OID (the name -> OID mapping is injective).
OidInjective ==
    \A n1 \in Names, n2 \in Names :
        (n1 # n2 /\ Mapped(store, n1) /\ Mapped(store, n2))
            => OidOf(store, n1) # OidOf(store, n2)

----------------------------------------------------------------------------
(* C2 *)

\* what C2 says of flushing the document of name n in database db
FlushCompactsAt(db, n) ==
    LET oid == OidOf(db, n)
        f == flush_doc(db, n)
    IN (HasSnapshot(db, oid) \/ LogSize(db, oid) >= 1) =>
        /\ f.ret = Some(Merged(db, oid))
        /\ Len(SelectSeq(f.db, LAMBDA e : get_key(e) = key_doc(oid))) = 1
        /\ Len(SelectSeq(f.db, LAMBDA e : get_key(e) = key_state_vector(oid))) = 1
        /\ LogSize(f.db, oid) = 0
        /\ \A t \in TargetPool :
              load_doc(f.db, n, t).ret.doc = load_doc(db, n, t).ret.doc

\* C2: flush of a document that has a Snapshot and/or N >= 1 update-log
\* entries returns the merge of the prior Snapshot (if any) with all N log
\* entries, leaves exactly one Snapshot, exactly one StateVector and no
\* update-log entry for that OID, and a load right after the flush yields
\* the same content as a load right before it.
FlushCompacts ==
    \A n \in Names : Mapped(store, n) => FlushCompactsAt(store, n)

\* a document with a Snapshot and two pending log entries whose flush
\* returns more than the Snapshot held
FlushCompactsWitness ==
    \E n \in Names :
        /\ Mapped(store, n)
        /\ HasSnapshot(store, OidOf(store, n))
        /\ LogSize(store, OidOf(store, n)) = MaxLog
        /\ IsSome(flush_doc(store, n).ret)
        /\ Unwrap(flush_doc(store, n).ret) # SnapshotBlocks(store, OidOf(store, n))
        /\ LogSize(flush_doc(store, n).db, OidOf(store, n)) = 0

----------------------------------------------------------------------------
(* C3 *)

\* what C3 says of loading the document of name n into the document t
LoadAppliesAt(db, n, t) ==
    LET oid == OidOf(db, n)
        l == load_doc(db, n, t).ret
        first == IF HasSnapshot(db, oid) THEN 1 ELSE 0
        log == SubSeq(l.applied, first + 1, Len(l.applied))
    IN /\ Len(l.applied) = first + LogSize(db, oid)
       /\ HasSnapshot(db, oid) => l.applied[1] = key_doc(oid)
       /\ \A i \in 1..Len(log) : IsUpdateKeyOf(log[i], oid) /\ log[i] \in Keys(db)
       /\ \A i \in 1..Len(log), j \in 1..Len(log) :
              i < j => U32LT(ClockOf(log[i]), ClockOf(log[j]))
       /\ l.doc = t \cup Merged(db, oid)
       /\ l.found = (Len(l.applied) > 0)

\* C3: load applies the Snapshot first (when one exists) and then every
\* update-log entry of that OID in ascending clock order, skipping none and
\* applying no record of another document; the target afterwards holds the
\* merge of its prior content, the Snapshot and all log entries.
LoadAppliesSnapshotThenLog ==
    \A n \in Names, t \in TargetPool :
        Mapped(store, n) => LoadAppliesAt(store, n, t)

\* a load that applies two log entries in clock order while another
\* document has records of its own
LoadAppliesWitness ==
    \E n \in Names, m \in Names :
        /\ Mapped(store, n) /\ Mapped(store, m)
        /\ OidOf(store, n) # OidOf(store, m)
        /\ HasSnapshot(store, OidOf(store, m))
        /\ LogSize(store, OidOf(store, n)) = 2
        /\ Len(load_doc(store, n, NewDoc).ret.applied) = 2
        /\ load_doc(store, n, NewDoc).ret.doc = Atoms

----------------------------------------------------------------------------
(* C4 *)

\* what C4 says of inserting the document d under the name n
InsertRoundTripAt(db, n, d) ==
    LET i == insert_doc(db, n, d)
        oid == OidOf(i.db, n)
        l == load_doc(i.db, n, NewDoc).ret
    IN LogSize(i.db, oid) = 0 =>
        /\ l.found
        /\ l.doc = d
        /\ get_state_vector(i.db, n).ret = Some(state_vector(d))
        /\ DocOps_get_state_vector(i.db, n).ret = <<Some(state_vector(d)), TRUE>>

\* C4: after insert of a document's full state under a name whose update
\* log is empty, load into a fresh document yields exactly the inserted
\* content, and get_state_vector returns exactly the inserted state vector,
\* with completeness = true.
InsertRoundTrip ==
    \A n \in Names, d \in InsertPool : InsertRoundTripAt(store, n, d)

\* the state right after the insert of a two-block document under a name
\* with an empty log, read back as inserted
InsertRoundTripWitness ==
    /\ op[1] = "insert_doc"
    /\ op[3] = Atoms
    /\ LogSize(store, OidOf(store, op[2])) = 0
    /\ load_doc(store, op[2], NewDoc).ret.doc = Atoms
    /\ DocOps_get_state_vector(store, op[2]).ret = <<Some(MaxAtom), TRUE>>

----------------------------------------------------------------------------
(* C5 *)

\* C5: get_state_vector never mutates the store: in every store state,
\* pending updates or not, the stored records are the same before and after
\* the call.
GetStateVectorReadOnly ==
    \A n \in Names : get_state_vector(store, n).db = store

----------------------------------------------------------------------------
(* C6 *)

\* what C6 says of the document of name n in database db
CompletenessAt(db, n) ==
    LET oid == OidOf(db, n)
        g == DocOps_get_state_vector(db, n).ret
        f == flush_doc(db, n)
    IN /\ g[2] = (LogSize(db, oid) = 0)
       /\ ~HasSnapshot(db, oid) => g[1] = None
       /\ \A u \in UpdatePool :
              LET p == push_update(db, n, u)
              IN DocOps_get_state_vector(p.db, n).ret[2] = FALSE
       /\ IsSome(f.ret) =>
              DocOps_get_state_vector(f.db, n).ret
                  = <<Some(state_vector(Unwrap(f.ret))), TRUE>>

\* C6: for an existing document get_state_vector (flag-returning variant)
\* reports completeness = true iff the update log of its OID holds no
\* entry: after any push it reports false (with no state vector when no
\* Snapshot was ever written), and after a flush it reports true together
\* with the state vector of the merged document.
CompletenessIffLogEmpty ==
    \A n \in Names : Mapped(store, n) => CompletenessAt(store, n)

\* the state right after a flush that folded pending updates: complete,
\* with the merged document's state vector
CompletenessWitness ==
    /\ op[1] = "flush_doc"
    /\ IsSome(ret)
    /\ Unwrap(ret) = Atoms
    /\ DocOps_get_state_vector(store, op[2]).ret = <<Some(MaxAtom), TRUE>>
    /\ \E u \in UpdatePool :
          DocOps_get_state_vector(push_update(store, op[2], u).db, op[2]).ret[2] = FALSE

----------------------------------------------------------------------------
(* C7 *)

\* what C7 says of LmdbPersistence::get_state_vector for the name n
EagerStateVectorAt(db, n) ==
    LET g == get_state_vector(db, n).ret
    IN /\ (Mapped(db, n) /\ ~HasSnapshot(db, OidOf(db, n)) /\ LogSize(db, OidOf(db, n)) > 0)
            => g = Some(state_vector(LogBlocks(db, OidOf(db, n))))
       /\ g = None =>
            \/ ~Mapped(db, n)
            \/ ~HasSnapshot(db, OidOf(db, n)) /\ LogSize(db, OidOf(db, n)) = 0

\* C7: LmdbPersistence::get_state_vector returns, for a document with
\* pending update-log entries and no Snapshot, the state vector of the
\* merge of all pushed updates; it returns None only when the name is
\* unknown or the document has neither Snapshot nor log entries.
EagerStateVector ==
    \A n \in Names : EagerStateVectorAt(store, n)

\* a document made of two pushed updates and no Snapshot, whose state
\* vector the call computes from the log; another document exists with
\* metadata only, for which the call returns None
EagerStateVectorWitness ==
    \E n \in Names, m \in Names :
        /\ Mapped(store, n) /\ Mapped(store, m)
        /\ ~HasSnapshot(store, OidOf(store, n))
        /\ LogSize(store, OidOf(store, n)) = 2
        /\ get_state_vector(store, n).ret = Some(MaxAtom)
        /\ get_state_vector(store, m).ret = None

----------------------------------------------------------------------------
(* C8 *)

\* the OIDs that own a record of the document namespace
StoredOids(db) ==
    { from_be_bytes(SubSeq(k, 3, 6)) :
        k \in { x \in Keys(db) : Len(x) >= 7 /\ x[2] = KEYSPACE_DOC } }

\* C8: in every committed state each OID has a Snapshot record if and only
\* if it has a StateVector record.
SnapshotIffStateVector ==
    \A oid \in StoredOids(store) \cup { OidOf(store, n) : n \in { m \in Names : Mapped(store, m) } } :
        HasSnapshot(store, oid) <=> HasStateVector(store, oid)

\* a store where one OID has both records and another, written by a
\* push alone, has neither
SnapshotIffStateVectorWitness ==
    /\ op[1] = "push_update"
    /\ \E o1 \in StoredOids(store), o2 \in StoredOids(store) :
        /\ HasSnapshot(store, o1) /\ HasStateVector(store, o1)
        /\ ~HasSnapshot(store, o2) /\ ~HasStateVector(store, o2)
        /\ LogSize(store, o2) = 1

----------------------------------------------------------------------------
(* C9 *)

\* what C9 says of get_diff for the name n against the state vector sv
GetDiffAt(db, n, sv) ==
    LET g == get_diff(db, n, sv)
        oid == OidOf(db, n)
        D == Merged(db, oid)
    IN /\ g.db = db
       /\ IF Mapped(db, n) /\ (HasSnapshot(db, oid) \/ LogSize(db, oid) > 0)
          THEN /\ g.ret = Some(encode_update({ a \in D : a > sv }))
               /\ D = load_doc(db, n, NewDoc).ret.doc
               /\ apply_update(1..sv, decode_update(Unwrap(g.ret))) = D \cup 1..sv
          ELSE g.ret = None

\* C9: get_diff(name, sv) returns encode_diff(D, sv) where D is the
\* document load would produce into a fresh document, whether the name was
\* written by pushes only, by insert only or by both; and it leaves the
\* store unchanged.
GetDiffMatchesLoad ==
    \A n \in Names, sv \in SvPool : GetDiffAt(store, n, sv)

\* a document written by an insert and a later push, whose diff against a
\* state vector covering the insert is the pushed block alone
GetDiffWitness ==
    \E n \in Names :
        /\ Mapped(store, n)
        /\ SnapshotBlocks(store, OidOf(store, n)) = {1}
        /\ LogBlocks(store, OidOf(store, n)) = {MaxAtom}
        /\ get_diff(store, n, 1).ret = Some(<<MaxAtom - 1>> \o SortInts(2..MaxAtom))
        /\ get_diff(store, n, 0).ret = Some(encode_update(Atoms))

----------------------------------------------------------------------------
(* C10 *)

\* what C10 says of clear_doc for the name n
ClearRemovesAt(db, n) ==
    LET oid == OidOf(db, n)
        c == clear_doc(db, n).db
        l == load_doc(c, n, NewDoc).ret
    IN /\ ~Mapped(c, n)
       /\ \A k \in Keys(c) : ~IsDocKeyOf(k, oid)
       /\ ~l.found /\ l.doc = NewDoc
       /\ get_state_vector(c, n).ret = None
       /\ DocOps_get_state_vector(c, n).ret[1] = None
       /\ \A i \in DOMAIN iter_docs(c).ret : iter_docs(c).ret[i] # n

\* C10: after clear(name) the name -> OID mapping is gone and no Snapshot,
\* StateVector, update or metadata record of that OID remains; load
\* returns false and leaves the target empty, get_state_vector returns
\* none, and enumeration no longer yields the name.
ClearRemovesAll ==
    \A n \in Names : Mapped(store, n) => ClearRemovesAt(store, n)

\* a document with a Snapshot, a StateVector, an update and a metadata
\* record, which clear_doc is about to remove
ClearRemovesWitness ==
    \E n \in Names :
        /\ Mapped(store, n)
        /\ HasSnapshot(store, OidOf(store, n))
        /\ HasStateVector(store, OidOf(store, n))
        /\ LogSize(store, OidOf(store, n)) = 1
        /\ \E k \in Keys(store) : IsMetaKeyOf(k, OidOf(store, n))
        /\ Len(clear_doc(store, n).db) = Len(store) - 5

----------------------------------------------------------------------------
(* C11 *)

\* the entries of db that belong to the document of name m: its mapping and
\* every record of the document namespace under its OID
RecordsOf(db, m) ==
    { db[i] : i \in { j \in 1..Len(db) :
        \/ get_key(db[j]) = key_oid(m)
        \/ IsDocKeyOf(get_key(db[j]), OidOf(db, m)) } }

\* what C11 says of clear_doc for the name n
ClearFrameAt(db, n) ==
    LET c == clear_doc(db, n).db
    IN IF ~Mapped(db, n) THEN c = db
       ELSE \A m \in Names \ {n} :
               Mapped(db, m) =>
                   /\ Mapped(c, m)
                   /\ RecordsOf(c, m) = RecordsOf(db, m)

\* C11: clear(name) changes nothing outside the cleared document: every
\* other name -> OID mapping and every Snapshot, StateVector, update-log
\* entry and metadata entry of every other document is the same before and
\* after the call; clear of an unknown name changes nothing at all.
ClearFrame ==
    \A n \in Names : ClearFrameAt(store, n)

----------------------------------------------------------------------------
(* C12 *)

\* what C12 says of an upsert and of a remove at (n, k), the map being
\* read through get_meta before and after
MetaLastWriteWinsAt(db, n, k) ==
    LET before == get_meta(db, n, k).ret
        r == remove_meta(db, n, k)
    IN /\ ~Mapped(db, n) => before = None
       /\ \A v \in MetaValues :
            LET i == insert_meta(db, n, k, v)
            IN /\ i.ret = before
               /\ get_meta(i.db, n, k).ret = Some(v)
               /\ \A n2 \in Names, k2 \in MetaKeys :
                      <<n2, k2>> # <<n, k>> =>
                          get_meta(i.db, n2, k2).ret = get_meta(db, n2, k2).ret
       /\ r.ret = before
       /\ get_meta(r.db, n, k).ret = None
       /\ \A n2 \in Names, k2 \in MetaKeys :
              <<n2, k2>> # <<n, k>> =>
                  get_meta(r.db, n2, k2).ret = get_meta(db, n2, k2).ret

\* C12: metadata is a last-write-wins map per (document, meta key): get
\* returns the value of the most recent upsert not followed by a remove
\* (None otherwise), upsert returns the value stored immediately before it
\* (None on first write), remove returns the value it removed and a
\* following get returns None; a write at one (document, key) leaves the
\* value at every other one as it was.
MetaLastWriteWins ==
    \A n \in Names, k \in MetaKeys : MetaLastWriteWinsAt(store, n, k)

----------------------------------------------------------------------------
(* C13 *)

\* the metadata entries stored for an OID, as (meta key, value) pairs read
\* off the keys
MetaPairs(db, oid) ==
    { <<SubSeq(get_key(db[i]), 8, Len(get_key(db[i])) - 1), get_value(db[i])>> :
        i \in { j \in 1..Len(db) : IsMetaKeyOf(get_key(db[j]), oid) } }

\* what C13 says of iter_meta for the name n
IterMetaAt(db, n) ==
    LET r == iter_meta(db, n).ret
        oid == OidOf(db, n)
    IN IF ~Mapped(db, n) THEN r = <<>>
       ELSE /\ { r[i] : i \in 1..Len(r) } = MetaPairs(db, oid)
            /\ Len(r) = Cardinality(MetaPairs(db, oid))
            /\ \A i \in 1..Len(r), j \in 1..Len(r) : i < j => KeyLT(r[i][1], r[j][1])
            /\ \A m \in Names \ {n} :
                   Mapped(db, m) =>
                       \A i \in 1..Len(r) :
                           \A e \in RecordsOf(db, m) :
                               get_key(e) # key_meta(oid, r[i][1])

\* C13: iter_meta(name) yields exactly the metadata entries currently
\* stored for that document, each once, in ascending byte order of the meta
\* key; it never yields a metadata entry of another document nor a
\* Snapshot, StateVector or update-log record, and yields nothing for an
\* unknown name.
IterMetaExact ==
    \A n \in Names : IterMetaAt(store, n)

----------------------------------------------------------------------------
(* C14 *)

\* the names that have a name -> OID mapping
MappedNames(db) == { n \in Names : Mapped(db, n) }

\* C14: document enumeration yields exactly the names that currently have a
\* name -> OID mapping, each once, in ascending byte-lexicographic order of
\* the name, whatever the order of creation and the operation that created
\* the document; it never yields a key of the document namespace.
IterDocsExact ==
    LET r == iter_docs(store).ret
    IN /\ { r[i] : i \in 1..Len(r) } = MappedNames(store)
       /\ Len(r) = Cardinality(MappedNames(store))
       /\ \A i \in 1..Len(r), j \in 1..Len(r) : i < j => KeyLT(r[i], r[j])

\* three documents created in an order that is not the order of their
\* names, one by a full insert, one by a push and one by a metadata
\* write, enumerated in name order
IterDocsWitness ==
    /\ MappedNames(store) = Names
    /\ \A n \in Names, m \in Names : n # m => OidOf(store, n) # OidOf(store, m)
    /\ \E n \in Names, m \in Names :
          KeyLT(n, m) /\ U32LT(OidOf(store, m), OidOf(store, n))
    /\ \E n \in Names : HasSnapshot(store, OidOf(store, n))
    /\ \E n \in Names : LogSize(store, OidOf(store, n)) = 1
    /\ \E n \in Names : MetaPairs(store, OidOf(store, n)) # {}
    /\ iter_docs(store).ret = << <<65>>, <<66>>, <<67>> >>

----------------------------------------------------------------------------
(* C15 *)

\* the databases left by the calls that must not create a document, when
\* made with the name n
NonCreatingCalls(db, n) ==
    { load_doc(db, n, t).db : t \in TargetPool }
        \cup { get_diff(db, n, sv).db : sv \in SvPool }
        \cup { get_meta(db, n, k).db : k \in MetaKeys }
        \cup { remove_meta(db, n, k).db : k \in MetaKeys }
        \cup { get_state_vector(db, n).db, DocOps_get_state_vector(db, n).db,
               flush_doc(db, n).db, clear_doc(db, n).db,
               iter_meta(db, n).db, iter_docs(db).db }

\* the databases left by the calls that create a document on first
\* reference, when made with the name n
CreatingCalls(db, n) ==
    { insert_doc(db, n, d).db : d \in InsertPool }
        \cup { push_update(db, n, u).db : u \in UpdatePool }
        \cup { insert_meta(db, n, k, v).db : k \in MetaKeys, v \in MetaValues }

\* what C15 says of the calls made with the name n
LazyCreationAt(db, n) ==
    /\ \A r \in NonCreatingCalls(db, n) :
          /\ MappedNames(r) \subseteq MappedNames(db)
          /\ ~Mapped(db, n) => r = db
    /\ \A r \in CreatingCalls(db, n) :
          MappedNames(r) = MappedNames(db) \cup {n}

\* C15: a name -> OID mapping is created only by insert, push-update and
\* metadata upsert on an unseen name; load, get_state_vector, get_diff,
\* get_meta, remove_meta, flush, clear and both iterators create no
\* mapping, and called with an unknown name leave the store unchanged.
LazyCreation ==
    \A n \in Names : LazyCreationAt(store, n)

\* a store with a document that has pending updates, and a name not yet
\* seen: remove_meta and get_state_vector on the unseen name change
\* nothing, a push creates its mapping
LazyCreationWitness ==
    \E n \in Names, m \in Names :
        /\ ~Mapped(store, n)
        /\ Mapped(store, m)
        /\ LogSize(store, OidOf(store, m)) = MaxLog
        /\ \A k \in MetaKeys : remove_meta(store, n, k).db = store
        /\ get_state_vector(store, n).db = store
        /\ get_state_vector(store, m).db # store
        /\ \A u \in UpdatePool : Mapped(push_update(store, n, u).db, n)

----------------------------------------------------------------------------
(* C16 *)

\* error codes of the backend other than NotFound
OtherErrors == { "KeyExist", "Corrupted", "MapFull" }

\* what C16 says of the calls made with a name n that has no mapping
AbsenceAt(db, n) ==
    /\ \A t \in TargetPool :
          /\ load_doc(db, n, t).ret.found = FALSE
          /\ load_doc(db, n, t).ret.doc = t
    /\ flush_doc(db, n).ret = None
    /\ \A sv \in SvPool : get_diff(db, n, sv).ret = None
    /\ \A k \in MetaKeys :
          /\ get_meta(db, n, k).ret = None
          /\ remove_meta(db, n, k).ret = None
    /\ get_state_vector(db, n).ret = None
    /\ DocOps_get_state_vector(db, n).ret = <<None, TRUE>>
    /\ clear_doc(db, n).ret = Ok
    /\ mdb_get(db, key_oid(n)) = MdbErr(NotFound)
    /\ get_oid(db, n) = None

\* C16: absence is never an error: for a name with no mapping, load
\* returns false, flush returns None, get_diff returns None, get_meta and
\* remove_meta return None, get_state_vector returns no state vector (with
\* completeness = true in the flag-returning variant) and clear succeeds;
\* a backend not-found result is mapped to None and every other backend
\* error is passed through as an error.
AbsenceIsNotAnError ==
    /\ \A n \in Names : ~Mapped(store, n) => AbsenceAt(store, n)
    /\ optional(MdbErr(NotFound)) = MdbOk(None)
    /\ \A e \in OtherErrors : optional(MdbErr(e)) = MdbErr(e)
    /\ \A x \in Keys(store) :
          /\ mdb_get(store, x) # MdbErr(NotFound)
          /\ optional(mdb_get(store, x)) = MdbOk(db_get(store, x))
          /\ IsSome(db_get(store, x))

\* a store holding a document with a Snapshot and pending updates, and a
\* name without mapping for which every call reports absence
AbsenceWitness ==
    \E n \in Names, m \in Names :
        /\ ~Mapped(store, n)
        /\ Mapped(store, m)
        /\ HasSnapshot(store, OidOf(store, m))
        /\ LogSize(store, OidOf(store, m)) >= 1
        /\ flush_doc(store, n).ret = None
        /\ load_doc(store, n, {MaxAtom}).ret.found = FALSE
        /\ DocOps_get_state_vector(store, n).ret = <<None, TRUE>>
        /\ DocOps_get_state_vector(store, m).ret[2] = FALSE

----------------------------------------------------------------------------
(* C17 *)

\* what C17 says of inserting the full state d under the name n over the
\* update log its OID holds
InsertOverStaleLogAt(db, n, d) ==
    LET i == insert_doc(db, n, d).db
        oid == OidOf(i, n)
        l == load_doc(i, n, NewDoc).ret
    IN /\ UpdateEntries(i, oid) = UpdateEntries(db, oid)
       /\ l.doc = d \cup LogBlocks(db, oid)
       /\ Len(l.applied) = 1 + LogSize(db, oid)
       /\ \A x \in 1..Len(l.applied), y \in 1..Len(l.applied) :
              x # y => l.applied[x] # l.applied[y]
       /\ \A e \in UpdateEntries(db, oid) :
              \E x \in 1..Len(l.applied) : l.applied[x] = get_key(e)

\* C17: insert over a stale log: after pushing updates U to a document and
\* then inserting an independently computed full state S, load yields the
\* merge of S and U with every update reflected exactly once (none
\* duplicated, none missing), whatever the overlap between S and U.
InsertOverStaleLog ==
    \A n \in Names, d \in InsertPool : InsertOverStaleLogAt(store, n, d)

\* the state right after an insert of a state that overlaps the first of
\* two pushed updates: the log is still there and load yields the merge
InsertOverStaleLogWitness ==
    /\ op[1] = "insert_doc"
    /\ op[3] = {1}
    /\ LogSize(store, OidOf(store, op[2])) = 2
    /\ LogBlocks(store, OidOf(store, op[2])) = Atoms
    /\ SnapshotBlocks(store, OidOf(store, op[2])) = {1}
    /\ load_doc(store, op[2], NewDoc).ret.doc = Atoms
    /\ Len(load_doc(store, op[2], NewDoc).ret.applied) = 3

----------------------------------------------------------------------------
(* C18 *)

\* what C18 says of inserting the full state d under the name n
InsertFrameAt(db, n, d) ==
    LET i == insert_doc(db, n, d).db
        oid == OidOf(i, n)
        i2 == [d2 \in InsertPool |-> insert_doc(i, n, d2).db]
    IN /\ SnapshotBlocks(i, oid) = d
       /\ db_get(i, key_state_vector(oid)) = Some(encode_sv(state_vector(d)))
       /\ Mapped(db, n) =>
              /\ UpdateEntries(i, oid) = UpdateEntries(db, oid)
              /\ MetaPairs(i, oid) = MetaPairs(db, oid)
       /\ \A m \in Names \ {n} :
              Mapped(db, m) => RecordsOf(i, m) = RecordsOf(db, m)
       /\ \A d2 \in InsertPool :
              LogSize(i2[d2], oid) = 0 =>
                  load_doc(i2[d2], n, NewDoc).ret.doc = d2

\* C18: insert replaces the Snapshot and StateVector of the document
\* wholesale and touches nothing else: every update-log entry and every
\* metadata entry of that document, and all records of other documents,
\* are unchanged; after two successive inserts on a document with an empty
\* log, load yields exactly the second inserted state.
InsertFrame ==
    \A n \in Names, d \in InsertPool : InsertFrameAt(store, n, d)

----------------------------------------------------------------------------
(* C19 *)

\* the clocks of the update log of an OID, read off the keys
Clocks(db, oid) == { ClockOf(get_key(e)) : e \in UpdateEntries(db, oid) }

\* the greatest of a non-empty set of clocks, in numeric order
MaxClock(S) == CHOOSE c \in S : \A d \in S : d = c \/ U32LT(d, c)

\* the entries of a database as a set
Entries(db) == { db[i] : i \in 1..Len(db) }

\* what C19 says of pushing the update u under the name n
PushClockAt(db, n, u) ==
    LET p == push_update(db, n, u)
        oid == OidOf(p.db, n)
        clock == IF Clocks(db, oid) = {} THEN U32(1)
                 ELSE u32_inc(MaxClock(Clocks(db, oid)))
    IN /\ p.ret = Ok
       /\ Entries(p.db) =
              Entries(db) \cup { <<key_update(oid, clock), u>>,
                                 <<key_oid(n), to_be_bytes(oid)>> }
       /\ Len(p.db) = Len(db) + 1 + (IF Mapped(db, n) THEN 0 ELSE 1)
       /\ \A c \in Clocks(db, oid) : U32LT(c, clock)

----------------------------------------------------------------------------
(* C20 *)

\* the clock under which a push of u under the name n is stored
AssignedClock(db, n, u) ==
    LET p == push_update(db, n, u).db
    IN MaxClock(Clocks(p, OidOf(p, n)) \ Clocks(db, OidOf(p, n)))

\* what C20 says of a push that follows a flush of the document of name n,
\* whose log holds the updates pushed so far
ClockNotReusedAt(db, n) ==
    LET f == flush_doc(db, n).db
    IN /\ Mapped(f, n)
       /\ \A u \in UpdatePool :
              AssignedClock(f, n, u) \notin Clocks(db, OidOf(db, n))

\* C20: update clocks are never reused: across any sequence of push and
\* flush operations on one document while its name mapping exists, no
\* clock value is assigned to two different pushes, and the first clock
\* ever assigned is 1.
ClockNeverReused ==
    \A n \in Names :
        /\ ~Mapped(store, n) =>
               \A u \in UpdatePool : AssignedClock(store, n, u) = U32(1)
        /\ Mapped(store, n) => ClockNotReusedAt(store, n)

----------------------------------------------------------------------------
(* C21 *)

\* what C21 says of flushing the name n in database db
FlushNoOpAt(db, n) ==
    LET f == flush_doc(db, n)
        nothing == \/ ~Mapped(db, n)
                   \/ /\ ~HasSnapshot(db, OidOf(db, n))
                      /\ LogSize(db, OidOf(db, n)) = 0
    IN nothing =>
        /\ f.ret = None
        /\ f.db = db
        /\ Mapped(db, n) =>
              /\ ~HasSnapshot(f.db, OidOf(db, n))
              /\ ~HasStateVector(f.db, OidOf(db, n))

\* C21: flush is a no-op when nothing can be loaded: for an unknown name,
\* or a document that has neither Snapshot nor update-log entry (for
\* example one created only by a metadata write), flush returns None,
\* writes no Snapshot and no StateVector, and leaves the store unchanged.
FlushNoOp ==
    \A n \in Names : FlushNoOpAt(store, n)

\* a document created by a metadata write alone, next to an unknown name:
\* flushing either one returns None and changes nothing
FlushNoOpWitness ==
    \E n \in Names, m \in Names :
        /\ op[1] = "insert_meta" /\ op[2] = n
        /\ Mapped(store, n)
        /\ MetaPairs(store, OidOf(store, n)) # {}
        /\ ~HasSnapshot(store, OidOf(store, n))
        /\ LogSize(store, OidOf(store, n)) = 0
        /\ flush_doc(store, n) = [db |-> store, ret |-> None]
        /\ ~Mapped(store, m)
        /\ flush_doc(store, m) = [db |-> store, ret |-> None]

----------------------------------------------------------------------------
(* C22 *)
(* Snapshots and updates reach the store as raw bytes: insert_doc_raw_v1   *)
(* and push_update store what they are given without decoding it.  The     *)
(* operators above read stores whose records all decode; the ones below    *)
(* read any store and carry the Result of the call.                        *)

\* Result::Ok and Result::Err of the facade
Done(value) == <<"Ok", value>>
Failed(error) == <<"Err", error>>
IsErr(result) == result[1] = "Err"

\* Error::DecodingError
DecodingError == "DecodingError"

\* the bytes are the encoding of an update: a block count, then that many
\* blocks
Decodable(bytes) == Len(bytes) >= 1 /\ bytes[1] = Len(bytes) - 1

\* Update::decode_v1 as a Result
Update_decode_v1(bytes) ==
    IF Decodable(bytes) THEN Done(decode_update(bytes)) ELSE Failed(DecodingError)

\* the update-log scan of load, stopping with the error of the first entry
\* that fails to decode
RECURSIVE try_apply_entries(_, _)
try_apply_entries(entries, doc) ==
    IF entries = <<>> THEN Done(doc)
    ELSE LET u == Update_decode_v1(get_value(Head(entries)))
         IN IF IsErr(u) THEN u
            ELSE try_apply_entries(Tail(entries), apply_update(doc, u[2]))

\* load(oid, target_doc) as a Result: Snapshot first, then the update log
try_lmdb_load_doc(db, oid, target) ==
    LET snapshot == db_get(db, key_doc(oid))
        found == IsSome(snapshot)
        s == IF found THEN Update_decode_v1(Unwrap(snapshot)) ELSE Done({})
        updates == keyrange(db, key_update(oid, U32_ZERO), key_update(oid, U32_MAX))
    IN IF IsErr(s) THEN s
       ELSE LET r == try_apply_entries(updates, apply_update(target, s[2]))
            IN IF IsErr(r) THEN r
               ELSE Done([doc |-> r[2],
                          applied |-> (IF found THEN <<key_doc(oid)>> ELSE <<>>)
                                        \o [i \in 1..Len(updates) |-> get_key(updates[i])],
                          loaded |-> Len(updates) + (IF found THEN 1 ELSE 0)])

\* flush(oid) as a Result; db is what the transaction holds afterwards
try_lmdb_flush_doc(db, oid) ==
    LET l == try_lmdb_load_doc(db, oid, NewDoc)
    IN IF IsErr(l) THEN [db |-> db, doc |-> l]
       ELSE IF l[2].loaded = 0 THEN [db |-> db, doc |-> Done(None)]
       ELSE LET doc_state == encode_diff_v1(l[2].doc, EmptyStateVector)
                state_vec == encode_sv(state_vector(l[2].doc))
            IN [db |-> delete_updates(insert_inner_v1(db, oid, doc_state, state_vec), oid),
                doc |-> Done(Some(l[2].doc))]

\* LmdbPersistence::load_doc with its Result
load_doc_result(db, doc_name, target) ==
    LET o == get_oid(db, doc_name)
    IN IF IsSome(o)
       THEN LET l == try_lmdb_load_doc(db, Unwrap(o), target)
            IN IF IsErr(l) THEN [db |-> db, ret |-> l]
               ELSE [db |-> db,
                     ret |-> Done([found |-> l[2].loaded # 0, doc |-> l[2].doc,
                                   applied |-> l[2].applied])]
       ELSE [db |-> db,
             ret |-> Done([found |-> FALSE, doc |-> target, applied |-> <<>>])]

\* flush_doc answering a decoding error by flushing what the lenient
\* decoding of the records gives, and committing it
flush_doc_result_skipping(db, doc_name) ==
    LET f == flush_doc(db, doc_name)
    IN [db |-> f.db, ret |-> Done(f.ret)]

\* LmdbPersistence::flush_doc with its Result: an error of the flush
\* returns before the commit
flush_doc_result(db, doc_name) ==
    LET o == get_oid(db, doc_name)
    IN IF IsSome(o)
       THEN LET f == try_lmdb_flush_doc(db, Unwrap(o))
            IN IF IsErr(f.doc) THEN [db |-> db, ret |-> f.doc]
               ELSE [db |-> f.db, ret |-> f.doc]
       ELSE [db |-> db, ret |-> Done(None)]

\* bytes that are no update: the count announces two blocks, one follows
Malformed == <<2, 1>>
\* the byte strings a caller hands to insert_doc_raw_v1 and push_update
RawPool == UpdatePool \cup {Malformed}

Raw_insert_doc_raw_v1 ==
    \E n \in Names, b \in RawPool :
        Write(<<"insert_doc_raw_v1", n, b>>,
              insert_doc_raw_v1(store, n, b, encode_sv(EmptyStateVector)))

Raw_push_update ==
    \E n \in Names, u \in RawPool :
        /\ nops < MaxOps
        /\ LET c == get_or_create_oid(store, n)
           IN Len(update_log(c.db, c.oid)) < MaxLog
        /\ Write(<<"push_update", n, u>>, push_update(store, n, u))

Raw_flush_doc ==
    \E n \in Names : Write(<<"flush_doc", n>>, flush_doc_result(store, n))

Raw_load_doc ==
    \E n \in Names, t \in TargetPool : Read(load_doc_result(store, n, t))

NextRaw ==
    \/ Raw_insert_doc_raw_v1
    \/ Raw_push_update
    \/ Raw_flush_doc
    \/ Raw_load_doc

\* the store under callers that hand over arbitrary bytes
SpecRaw == Init /\ [][NextRaw]_vars

\* some record of oid that load reads fails to decode
HasUndecodable(db, oid) ==
    \/ \E i \in 1..Len(db) : get_key(db[i]) = key_doc(oid) /\ ~Decodable(get_value(db[i]))
    \/ \E e \in UpdateEntries(db, oid) : ~Decodable(get_value(e))

\* what C22 says of load and flush of the name n
FailStopAt(db, n) ==
    LET oid == OidOf(db, n)
    IN /\ HasUndecodable(db, oid) =>
            /\ \A t \in TargetPool :
                  load_doc_result(db, n, t) = [db |-> db, ret |-> Failed(DecodingError)]
            /\ flush_doc_result(db, n) = [db |-> db, ret |-> Failed(DecodingError)]
       /\ ~HasUndecodable(db, oid) =>
            /\ \A t \in TargetPool :
                  load_doc_result(db, n, t).ret = Done(load_doc(db, n, t).ret)
            /\ flush_doc_result(db, n) =
                  [db |-> flush_doc(db, n).db, ret |-> Done(flush_doc(db, n).ret)]

\* C22: fail-stop on undecodable records: if the Snapshot or any update-log
\* entry of a document fails to decode, load and flush return an error
\* instead of skipping that record, and the failed flush leaves the
\* committed store unchanged (no new Snapshot or StateVector, no log entry
\* removed); when every record decodes they succeed as described before.
FailStop ==
    \A n \in Names : Mapped(store, n) => FailStopAt(store, n)

\* a document whose log holds an entry that decodes and a later one that
\* does not: its flush has just failed, both entries are still there and
\* no Snapshot or StateVector was written
FailStopWitness ==
    \E n \in Names :
        /\ op = <<"flush_doc", n>>
        /\ ret = Failed(DecodingError)
        /\ Mapped(store, n)
        /\ ~HasSnapshot(store, OidOf(store, n))
        /\ ~HasStateVector(store, OidOf(store, n))
        /\ LogSize(store, OidOf(store, n)) = 2
        /\ \E e \in UpdateEntries(store, OidOf(store, n)) :
              ClockOf(get_key(e)) = U32(1) /\ Decodable(get_value(e))
        /\ \E e \in UpdateEntries(store, OidOf(store, n)) :
              ClockOf(get_key(e)) = U32(2) /\ ~Decodable(get_value(e))

----------------------------------------------------------------------------
(* C23 *)

\* Transaction::iterator_opt(From(from, Forward)) with iterate_lower_bound
\* from and iterate_upper_bound to: the upper bound of the engine is
\* exclusive
rocksdb_iterator_opt(db, from, to) ==
    SelectSeq(db, LAMBDA e : KeyLE(from, get_key(e)) /\ KeyLT(get_key(e), to))

\* KVStore::remove_range of the RocksDB adapter: deletes every key the
\* bounded iterator yields
rocksdb_remove_range(db, from, to) ==
    db_del_all(db, rocksdb_iterator_opt(db, from, to))

\* the keys a deletion of [from, to) leaves
KeysOutside(db, from, to) ==
    { k \in Keys(db) : ~(KeyLE(from, k) /\ KeyLT(k, to)) }

\* the adapter's remove_range deletes exactly the keys of [from, to)
RemoveRangeExactAt(adapter_remove_range(_, _, _), db, from, to) ==
    LET after == adapter_remove_range(db, from, to)
    IN /\ Keys(after) = KeysOutside(db, from, to)
       /\ \A i \in 1..Len(after) : \E j \in 1..Len(db) : after[i] = db[j]

\* what C23 says of the RocksDB adapter
RocksDBRemoveRangeExact ==
    \A from \in Keys(store), to \in Keys(store) :
        RemoveRangeExactAt(rocksdb_remove_range, store, from, to)

\* C23: remove_range(from, to) of every backend adapter deletes exactly the
\* stored keys k with from <= k < to: a stored key equal to `to`, and every
\* key below `from` or above `to`, is still present afterwards.
RemoveRangeExact ==
    \A from \in Keys(store), to \in Keys(store) :
        /\ RemoveRangeExactAt(remove_range, store, from, to)
        /\ RemoveRangeExactAt(rocksdb_remove_range, store, from, to)

----------------------------------------------------------------------------
(* C24 *)
(* Write transactions of several callers over one engine.  A transaction   *)
(* reads the store as committed when it begins, buffers its writes, and    *)
(* applies them at commit.  What the engine does with transactions that    *)
(* overlap is its own: it makes writers wait for each other, it aborts a   *)
(* transaction whose written keys were committed to meanwhile, or it does  *)
(* neither and the later commit overwrites.                                *)

Backends == {"unserialized", "serialized", "conflict_abort"}

\* the entries a transaction put and the entries it deleted, given what it
\* read at its beginning (snap) and what it holds at its end (view)
txn_puts(snap, view) ==
    SelectSeq(view, LAMBDA e : \A i \in 1..Len(snap) : snap[i] # e)
txn_dels(snap, view) ==
    SelectSeq(snap, LAMBDA e : get_key(e) \notin Keys(view))
WriteKeys(snap, view) == Keys(txn_puts(snap, view)) \cup Keys(txn_dels(snap, view))

RECURSIVE db_put_all(_, _)
db_put_all(db, entries) ==
    IF entries = <<>> THEN db
    ELSE db_put_all(db_put(db, get_key(Head(entries)), get_value(Head(entries))),
                    Tail(entries))

\* a commit that leaves alone every key the committed store already holds
commit_writes_no_overwrite(db, snap, view) ==
    db_put_all(db_del_all(db, txn_dels(snap, view)),
               SelectSeq(txn_puts(snap, view), LAMBDA e : get_key(e) \notin Keys(db)))

\* Transaction::commit: the buffered writes reach the committed store
commit_writes(db, snap, view) ==
    db_put_all(db_del_all(db, txn_dels(snap, view)), txn_puts(snap, view))

\* callers t and u held their transactions open at the same time
Overlapped(t, u) ==
    /\ txn[t].pc # "idle" /\ txn[u].pc # "idle"
    /\ (u \in txn[t].with \/ t \in txn[u].with)

\* a key the transaction of t wrote was committed by another transaction
\* after t began
Conflicting(t) ==
    \E u \in TxnIds \ {t} :
        /\ txn[u].pc = "committed"
        /\ txn[u].cno > txn[t].at
        /\ WriteKeys(txn[u].snap, txn[u].view)
              \cap WriteKeys(txn[t].snap, txn[t].view) # {}

\* caller t runs insert_doc_raw_v1 up to its commit: new_transaction, then
\* get_or_create_oid and insert_inner_v1 over what the transaction reads.
\* A caller whose transaction was aborted runs the same call again.
Txn_begin(t) ==
    /\ txn[t].pc \in {"idle", "aborted"}
    /\ backend = "serialized" => \A u \in TxnIds : txn[u].pc # "open"
    /\ \E n \in Names :
        /\ txn[t].pc = "aborted" => n = txn[t].name
        /\ txn' = [txn EXCEPT ![t] =
                    [pc |-> "open",
                     name |-> n,
                     oid |-> get_or_create_oid(store, n).oid,
                     snap |-> store,
                     view |-> insert_doc_raw_v1(store, n, encode_update({1}),
                                                encode_sv(1)).db,
                     at |-> nops,
                     with |-> {u \in TxnIds \ {t} : txn[u].pc = "open"}]]
    /\ UNCHANGED <<store, op, ret, nops, backend, pushed>>

\* db_txn.commit() of caller t succeeds
Txn_commit(t) ==
    /\ txn[t].pc = "open"
    /\ backend = "conflict_abort" => ~Conflicting(t)
    /\ store' = commit_writes(store, txn[t].snap, txn[t].view)
    /\ nops' = nops + 1
    /\ txn' = [txn EXCEPT ![t] = [@ EXCEPT !.pc = "committed"] @@ [cno |-> nops + 1]]
    /\ op' = <<"insert_doc_raw_v1", txn[t].name>>
    /\ ret' = Ok
    /\ UNCHANGED <<backend, pushed>>

\* db_txn.commit() of caller t fails on a write-write conflict: nothing of
\* the transaction reaches the store
Txn_abort(t) ==
    /\ txn[t].pc = "open"
    /\ backend = "conflict_abort" /\ Conflicting(t)
    /\ txn' = [txn EXCEPT ![t].pc = "aborted"]
    /\ op' = <<"insert_doc_raw_v1", txn[t].name>>
    /\ ret' = Err
    /\ UNCHANGED <<store, nops, backend, pushed>>

InitRace ==
    /\ store = EmptyDb
    /\ op = <<"new">>
    /\ ret = Ok
    /\ nops = 0
    /\ backend \in Backends
    /\ txn = NoTxn
    /\ pushed = NoPushes

NextRace ==
    \E t \in TxnIds :
        \/ Txn_begin(t)
        \/ Txn_commit(t)
        \/ Txn_abort(t)

\* callers inserting documents in transactions that may overlap
SpecRace == InitRace /\ [][NextRace]_vars

\* the callers whose transaction is committed
Committed == { t \in TxnIds : txn[t].pc = "committed" }

\* t is the last to have committed a call for its name
LastCommitter(t) ==
    /\ t \in Committed
    /\ \A u \in Committed : txn[u].name = txn[t].name => txn[u].cno <= txn[t].cno

\* C24: OID-creation race.  When the backend serializes writers or aborts
\* the conflicting transaction, all callers that created or looked up the
\* same name end up with one and the same OID, the one the store maps the
\* name to.  Whatever the backend does, the mapping the store holds for a
\* name is the one of the call that committed last; so when the backend does
\* neither and two overlapping calls obtained different OIDs for the name,
\* the later commit's mapping has replaced the earlier one.
OidCreationRace ==
    /\ backend # "unserialized" =>
          \A t \in Committed, u \in Committed :
              txn[t].name = txn[u].name => txn[t].oid = txn[u].oid
    /\ \A t \in TxnIds :
          LastCommitter(t) =>
              /\ Mapped(store, txn[t].name)
              /\ OidOf(store, txn[t].name) = txn[t].oid

\* the backend neither serializes nor aborts: two overlapping calls for the
\* same name, new to both, have committed with different OIDs, and the
\* store maps the name to the OID of the later commit
OidCreationRaceWitness ==
    \E t \in Committed, u \in Committed :
        /\ backend = "unserialized"
        /\ t # u
        /\ Overlapped(t, u)
        /\ txn[t].name = txn[u].name
        /\ ~Mapped(txn[t].snap, txn[t].name)
        /\ ~Mapped(txn[u].snap, txn[u].name)
        /\ txn[t].oid # txn[u].oid
        /\ txn[t].cno < txn[u].cno
        /\ OidOf(store, txn[u].name) = txn[u].oid

\* the backend serializes or aborts: two calls for the same new name have
\* both committed, the second after waiting or after a retry
OidCreationSerializedWitness ==
    \E t \in Committed, u \in Committed :
        /\ backend # "unserialized"
        /\ t # u
        /\ txn[t].name = txn[u].name
        /\ txn[t].oid = txn[u].oid
        /\ OidOf(store, txn[u].name) = txn[u].oid

----------------------------------------------------------------------------
(* C25 *)

\* what the reading calls return for the name m
ReadsOf(db, m) ==
    << load_doc(db, m, NewDoc).ret,
       [sv \in SvPool |-> get_diff(db, m, sv).ret],
       [k \in MetaKeys |-> get_meta(db, m, k).ret],
       iter_meta(db, m).ret >>

\* the stores the insert, push, flush, clear and metadata calls under the
\* name n lead to
WritesUnder(db, n) ==
    { insert_doc(db, n, d).db : d \in InsertPool }
        \cup { push_update(db, n, u).db : u \in UpdatePool }
        \cup { flush_doc(db, n).db, clear_doc(db, n).db }
        \cup { insert_meta(db, n, k, v).db : k \in MetaKeys, v \in MetaValues }
        \cup { remove_meta(db, n, k).db : k \in MetaKeys }

\* a call under the name n changes nothing of what is read under another
\* name
IsolatedAt(db, n) ==
    \A after \in WritesUnder(db, n), m \in Names \ {n} :
        ReadsOf(after, m) = ReadsOf(db, m)

\* a document created for the unknown name n holds what the creating call
\* wrote and nothing else
StartsEmptyAt(db, n) ==
    /\ \A d \in InsertPool :
          LET i == insert_doc(db, n, d).db
          IN /\ load_doc(i, n, NewDoc).ret.doc = d
             /\ iter_meta(i, n).ret = <<>>
             /\ LogSize(i, OidOf(i, n)) = 0
    /\ \A u \in UpdatePool :
          LET p == push_update(db, n, u).db
          IN /\ load_doc(p, n, NewDoc).ret.doc = decode_update(u)
             /\ iter_meta(p, n).ret = <<>>
             /\ ~HasSnapshot(p, OidOf(p, n))
             /\ LogSize(p, OidOf(p, n)) = 1
    /\ \A k \in MetaKeys, v \in MetaValues :
          LET i == insert_meta(db, n, k, v).db
          IN /\ ~load_doc(i, n, NewDoc).ret.found
             /\ \A sv \in SvPool : get_diff(i, n, sv).ret = None
             /\ iter_meta(i, n).ret = << <<k, v>> >>
             /\ ~HasSnapshot(i, OidOf(i, n))
             /\ LogSize(i, OidOf(i, n)) = 0

\* C25: documents are isolated: whatever insert, push, flush, clear and
\* metadata calls ran over several names created in any order, a further
\* such call under one name changes nothing of what load, get_diff,
\* get_meta and iter_meta return for another name, and a newly created
\* document never starts with a Snapshot, log entry or metadata entry
\* written under another name.
DocumentsIsolated ==
    \A n \in Names :
        /\ IsolatedAt(store, n)
        /\ ~Mapped(store, n) => StartsEmptyAt(store, n)

----------------------------------------------------------------------------
(* C26 *)
(* One document that is only pushed to and flushed, the flushes coming at  *)
(* any point between the pushes.                                           *)

\* the name n is the only one that may have a document
OnlyDocument(n) == \A m \in Names \ {n} : ~Mapped(store, m)

Compact_push_update ==
    \E n \in Names, u \in UpdatePool :
        /\ OnlyDocument(n)
        /\ nops < MaxCompactOps
        /\ \E r \in {push_update(store, n, u)} :
            /\ store' = r.db
            /\ ret' = r.ret
            /\ pushed' = IF r.ret = Ok THEN [pushed EXCEPT ![n] = @ \cup {u}]
                         ELSE pushed
        /\ op' = <<"push_update", n, u>>
        /\ nops' = nops + 1
        /\ UNCHANGED <<backend, txn>>

Compact_flush_doc ==
    \E n \in Names :
        /\ OnlyDocument(n)
        /\ nops < MaxCompactOps
        /\ \E r \in {flush_doc(store, n)} :
            /\ store' = r.db
            /\ ret' = r.ret
        /\ op' = <<"flush_doc", n>>
        /\ nops' = nops + 1
        /\ UNCHANGED <<backend, txn, pushed>>

Compact_load_doc ==
    \E n \in Names, t \in TargetPool : Read(load_doc(store, n, t))

NextCompact ==
    \/ Compact_push_update
    \/ Compact_flush_doc
    \/ Compact_load_doc

SpecCompact == Init /\ [][NextCompact]_vars

\* the merge of all updates pushed under the name n so far
PushedBlocks(n) == UNION { decode_update(u) : u \in pushed[n] }

\* C26: no pushed update is lost by compaction: for any sequence of push
\* and flush operations on one document (no insert, no clear), in any order
\* and with any number of flushes, load always yields the merge of all
\* updates pushed so far.
NoUpdateLost ==
    \A n \in Names, t \in TargetPool :
        LET l == load_doc(store, n, t).ret
        IN /\ l.doc = t \cup PushedBlocks(n)
           /\ l.found = (pushed[n] # {})

\* four or more pushes and flushes ran, the last one a flush: both pushed
\* updates are in the Snapshot, the log is empty and the load yields both
NoUpdateLostWitness ==
    \E n \in Names :
        /\ op = <<"flush_doc", n>>
        /\ nops >= 4
        /\ pushed[n] = UpdatePool
        /\ Mapped(store, n)
        /\ HasSnapshot(store, OidOf(store, n))
        /\ LogSize(store, OidOf(store, n)) = 0
        /\ SnapshotBlocks(store, OidOf(store, n)) = Atoms
        /\ load_doc(store, n, NewDoc).ret.doc = Atoms

----------------------------------------------------------------------------
(* C27 *)

\* the state vector in the StateVector record of oid
CachedStateVector(db, oid) == decode_sv(Unwrap(db_get(db, key_state_vector(oid))))

\* what C27 says of the document of name n
CacheCoherentAt(db, n) ==
    LET oid == OidOf(db, n)
        loaded == load_doc(db, n, NewDoc).ret.doc
        r == DocOps_get_state_vector(db, n).ret
    IN HasStateVector(db, oid) =>
        /\ LogSize(db, oid) = 0 =>
              /\ CachedStateVector(db, oid) = state_vector(loaded)
              /\ r = <<Some(state_vector(loaded)), TRUE>>
              /\ get_state_vector(db, n) = [db |-> db, ret |-> Some(state_vector(loaded))]
        /\ CachedStateVector(db, oid) # state_vector(loaded) =>
              /\ LogSize(db, oid) > 0
              /\ r = <<Some(CachedStateVector(db, oid)), FALSE>>

\* C27: cache coherence of the state vector: in every reachable state in
\* which a document's update log is empty and a StateVector record exists
\* (inserts being given the state vector of their full state), the cached
\* StateVector equals the state vector of the document that load produces;
\* a stale StateVector is only observed together with completeness = false.
CacheCoherent ==
    \A n \in Names : Mapped(store, n) => CacheCoherentAt(store, n)

\* a document with an empty log whose StateVector is the one of its load,
\* next to a document whose StateVector a push has just made stale and
\* which is reported incomplete
CacheCoherentWitness ==
    \E n \in Names, m \in Names :
        /\ op[1] = "push_update" /\ op[2] = m
        /\ Mapped(store, n) /\ Mapped(store, m)
        /\ OidOf(store, n) # OidOf(store, m)
        /\ LogSize(store, OidOf(store, n)) = 0
        /\ HasStateVector(store, OidOf(store, n))
        /\ CachedStateVector(store, OidOf(store, n)) = 1
        /\ state_vector(load_doc(store, n, NewDoc).ret.doc) = 1
        /\ HasStateVector(store, OidOf(store, m))
        /\ CachedStateVector(store, OidOf(store, m))
              # state_vector(load_doc(store, m, NewDoc).ret.doc)
        /\ DocOps_get_state_vector(store, m).ret[2] = FALSE

----------------------------------------------------------------------------
(* C28 *)
(* The engine's iterator yields Results: an entry, or the error the engine *)
(* ran into, after which it yields nothing more.  fail_at is the position  *)
(* of the item at which the engine fails, 0 when it does not.              *)

\* rocksdb::Error
RocksDBError == "RocksDBError"

\* the items of DBIteratorWithThreadMode over [from, to)
rocksdb_inner(db, from, to, fail_at) ==
    LET entries == rocksdb_iterator_opt(db, from, to)
    IN IF fail_at \in 1..Len(entries)
       THEN [i \in 1..(fail_at - 1) |-> Done(entries[i])] \o <<Failed(RocksDBError)>>
       ELSE [i \in 1..Len(entries) |-> Done(entries[i])]

\* RocksDBIter::next until it returns None: an entry below `to` is yielded,
\* an entry at or above `to` ends the iteration, and so does an Err item
RECURSIVE RocksDBIter_next(_, _)
RocksDBIter_next(inner, to) ==
    IF inner = <<>> THEN <<>>
    ELSE LET n == Head(inner)
         IN IF ~IsErr(n)
            THEN IF KeyLE(to, get_key(n[2])) THEN <<>>
                 ELSE <<n[2]>> \o RocksDBIter_next(Tail(inner), to)
            ELSE <<>>

\* KVStore::iter_range of the RocksDB adapter, consumed to its end
rocksdb_iter_range(db, from, to, fail_at) ==
    RocksDBIter_next(rocksdb_inner(db, from, to, fail_at), to)

\* the loop of KVStore::remove_range of the RocksDB adapter: `res?` returns
\* the error of an item, the deletions so far staying in the transaction
RECURSIVE rocksdb_remove_loop(_, _)
rocksdb_remove_loop(db, inner) ==
    IF inner = <<>> THEN [db |-> db, ret |-> Done(<<>>)]
    ELSE LET res == Head(inner)
         IN IF IsErr(res) THEN [db |-> db, ret |-> res]
            ELSE rocksdb_remove_loop(db_del(db, get_key(res[2])), Tail(inner))

\* KVStore::remove_range of the RocksDB adapter with its Result
rocksdb_remove_range_result(db, from, to, fail_at) ==
    rocksdb_remove_loop(db, rocksdb_inner(db, from, to, fail_at))

\* load(oid, target_doc) over the adapter's iter_range
DocOps_load_doc(db, oid, target, fail_at) ==
    LET snapshot == db_get(db, key_doc(oid))
        found == IsSome(snapshot)
        doc1 == IF found THEN apply_update(target, decode_update(Unwrap(snapshot)))
                ELSE target
        updates == rocksdb_iter_range(db, key_update(oid, U32_ZERO),
                                      key_update(oid, U32_MAX), fail_at)
    IN Done([doc |-> apply_entries(updates, doc1),
             loaded |-> Len(updates) + (IF found THEN 1 ELSE 0)])

\* flush(oid) over the adapter, in a transaction the caller commits when
\* the flush returned Ok: the scan of the load fails at fail_load, the one
\* of the range deletion at fail_remove
DocOps_flush_doc(db, oid, fail_load, fail_remove) ==
    LET l == DocOps_load_doc(db, oid, NewDoc, fail_load)[2]
    IN IF l.loaded = 0 THEN [db |-> db, ret |-> Done(None)]
       ELSE LET doc_state == encode_diff_v1(l.doc, EmptyStateVector)
                state_vec == encode_sv(state_vector(l.doc))
                r == rocksdb_remove_range_result(
                        insert_inner_v1(db, oid, doc_state, state_vec),
                        key_update(oid, U32_ZERO), key_update(oid, U32_MAX), fail_remove)
            IN IF IsErr(r.ret) THEN [db |-> db, ret |-> r.ret]
               ELSE [db |-> r.db, ret |-> Done(Some(l.doc))]

\* what C28 says of the scans over the update log of the name n when the
\* engine fails at the item fail_at of the scan
ScanErrorAt(db, n, fail_at) ==
    LET oid == OidOf(db, n)
        from == key_update(oid, U32_ZERO)
        to == key_update(oid, U32_MAX)
    IN /\ rocksdb_iter_range(db, from, to, fail_at) = rocksdb_iter_range(db, from, to, 0)
       /\ IsErr(rocksdb_remove_range_result(db, from, to, fail_at).ret)
       /\ IsErr(DocOps_load_doc(db, oid, NewDoc, fail_at))
       /\ \A fail_remove \in 0..LogSize(db, oid) :
              LET f == DocOps_flush_doc(db, oid, fail_at, fail_remove)
              IN IsErr(f.ret) /\ f.db = db

\* C28: a backend error raised in the middle of a range scan is propagated
\* to the caller of the operation that scans; a scan is never silently cut
\* short on error, so load never returns success with only a prefix of the
\* log applied and flush never writes a Snapshot built from a truncated log
\* and then deletes the unread entries.
ScanErrorsPropagate ==
    \A n \in Names :
        Mapped(store, n) =>
            \A fail_at \in 1..LogSize(store, OidOf(store, n)) :
                ScanErrorAt(store, n, fail_at)

\* the range deletion of the adapter does return the error of its scan
RemoveRangePropagates ==
    \A n \in Names :
        Mapped(store, n) =>
            \A fail_at \in 1..LogSize(store, OidOf(store, n)) :
                IsErr(rocksdb_remove_range_result(store,
                        key_update(OidOf(store, n), U32_ZERO),
                        key_update(OidOf(store, n), U32_MAX), fail_at).ret)

----------------------------------------------------------------------------
(* C29 *)
(* The range scan of the engine binding as the consumers guard against it: *)
(* it starts at the first key >= start and may yield entries past end.     *)

\* Database::keyrange(start, end) yielding `extra` entries past end, when
\* the store has that many
keyrange_past(db, start, end, extra) ==
    LET from_start == SelectSeq(db, LAMBDA e : KeyLE(start, get_key(e)))
    IN SubSeq(from_start, 1, Min(Len(from_start), Len(keyrange(db, start, end)) + extra))

\* OwnedCursorRange::next until the cursor ends: every entry of the cursor
OwnedCursorRange_next(cursor) == cursor

\* DocsNameIter::next over the cursor of iter_docs
DocsNameIter_next(cursor) ==
    LET c == OwnedCursorRange_next(cursor)
    IN [i \in 1..Len(c) |-> doc_oid_name(get_key(c[i]))]

\* MetadataIter::next over the cursor of iter_meta
MetadataIter_next(cursor) ==
    LET c == OwnedCursorRange_next(cursor)
    IN [i \in 1..Len(c) |-> <<doc_meta_name(get_key(c[i])), get_value(c[i])>>]

\* the last-clock lookup of push_update over its scan: iter.last()
last_clock_of(iter) ==
    IF iter # <<>>
    THEN LET last_key == get_key(iter[Len(iter)])
             len == Len(last_key)
         IN from_be_bytes(SubSeq(last_key, len - 4, len - 1))
    ELSE U32_ZERO

\* the deletion loops of clear_doc and of the LMDB remove_range over their
\* scan: the first key above end breaks the loop
RECURSIVE del_until(_, _, _)
del_until(db, iter, end) ==
    IF iter = <<>> THEN db
    ELSE IF KeyLT(end, get_key(Head(iter))) THEN db
    ELSE del_until(db_del(db, get_key(Head(iter))), Tail(iter), end)

\* LmdbRange::next until it returns None: the first key above `to` ends it
RECURSIVE LmdbRange_next(_, _)
LmdbRange_next(cursor, to) ==
    IF cursor = <<>> THEN <<>>
    ELSE IF KeyLT(to, get_key(Head(cursor))) THEN <<>>
    ELSE <<Head(cursor)>> \o LmdbRange_next(Tail(cursor), to)

\* the consumers that compare every yielded key with the end: the deletion
\* loops and the cursor of iter_range
CheckedConsumersAt(db, oid, extra) ==
    /\ del_until(db, keyrange_past(db, key_doc_start(oid), key_doc_end(oid), extra),
                 key_doc_end(oid))
          = clear_range(db, key_doc_start(oid), key_doc_end(oid))
    /\ del_until(db, keyrange_past(db, key_update(oid, U32_ZERO),
                                   key_update(oid, U32_MAX), extra),
                 key_update(oid, U32_MAX))
          = delete_updates(db, oid)
    /\ LmdbRange_next(keyrange_past(db, key_update(oid, U32_ZERO),
                                    key_update(oid, U32_MAX), extra),
                      key_update(oid, U32_MAX))
          = update_log(db, oid)

\* the checked consumers do stop at the end
CheckedConsumersStop ==
    \A n \in Names, extra \in 0..MaxExtra :
        Mapped(store, n) => CheckedConsumersAt(store, OidOf(store, n), extra)

\* what C29 says of the consumers of the scans for the name n
DefensiveAt(db, n, extra) ==
    LET oid == OidOf(db, n)
    IN /\ MetadataIter_next(keyrange_past(db, key_meta_start(oid), key_meta_end(oid), extra))
            = iter_meta(db, n).ret
       /\ last_clock_of(keyrange_past(db, key_update(oid, U32_ZERO),
                                      key_update(oid, U32_MAX), extra))
            = last_clock(db, oid)
       /\ CheckedConsumersAt(db, oid, extra)

\* C29: defensive upper bound: even when the backend's range scan keeps
\* yielding keys past the declared end, no range consumer acts on such a
\* key: document enumeration and metadata iteration do not yield it, the
\* last-clock lookup of push does not take its clock from it, and clear and
\* remove_range do not delete it.
DefensiveUpperBound ==
    \A extra \in 0..MaxExtra :
        /\ DocsNameIter_next(keyrange_past(store, <<V1, KEYSPACE_OID>>,
                                           <<V1, KEYSPACE_DOC>>, extra))
              = iter_docs(store).ret
        /\ \A n \in Names : Mapped(store, n) => DefensiveAt(store, n, extra)

----------------------------------------------------------------------------
(* C30 *)

\* C30: the pending-update probe of get_state_vector is bounded to the
\* document's own update range: the log of a document is treated as
\* non-empty (the cached state vector as stale, a flush being run) only
\* when at least one UPDATE record of that document's OID exists; metadata
\* entries of the same document and records of documents with greater OIDs
\* never make it so.
PendingProbeBounded ==
    \A n \in Names :
        Mapped(store, n) =>
            has_pending_updates(store, OidOf(store, n))
                = (LogSize(store, OidOf(store, n)) > 0)

\* the probe does find every pending update
PendingProbeComplete ==
    \A n \in Names :
        (Mapped(store, n) /\ LogSize(store, OidOf(store, n)) > 0)
            => has_pending_updates(store, OidOf(store, n))

----------------------------------------------------------------------------
(* C31 *)
(* The update log near the end of the clock range.  last_clock + 1 is a    *)
(* u32 addition: at the 32-bit maximum a build without overflow checks     *)
(* wraps to 0, a build with overflow checks panics.                        *)

\* a thread that panicked in the call
Panic == "Panic"

\* push_update as built with overflow checks
push_update_overflow_checked(db, doc_name, update) ==
    LET c == get_or_create_oid(db, doc_name)
    IN IF last_clock(c.db, c.oid) = U32_MAX
       THEN [db |-> db, ret |-> Panic]
       ELSE push_update(db, doc_name, update)

\* what push_update may do, one outcome per build
push_update_builds(db, doc_name, update) ==
    { push_update(db, doc_name, update),
      push_update_overflow_checked(db, doc_name, update) }

\* the clocks at which the runs near the end of the range start
HighClocks == { <<65535, 65533>>, <<65535, 65534>> }

\* the top of the log of a document that was pushed to, without flush, up
\* to the clock c: the name entry and the last log entry.  The entries
\* below c are left out; push reads the last key of the range only.
HighClockStore(n, c, u) ==
    db_put(db_put(EmptyDb, key_oid(n), to_be_bytes(U32(1))),
           key_update(U32(1), c), u)

InitOverflow ==
    /\ \E n \in Names, c \in HighClocks, u \in UpdatePool :
          store = HighClockStore(n, c, u)
    /\ op = <<"new">>
    /\ ret = Ok
    /\ nops = 0
    /\ backend = "serialized"
    /\ txn = NoTxn
    /\ pushed = NoPushes

Overflow_push_update ==
    \E n \in Names, u \in UpdatePool :
        \E p \in push_update_builds(store, n, u) :
            /\ Mapped(store, n)
            /\ Write(<<"push_update", n, u>>, p)

Overflow_load_doc ==
    \E n \in Names, t \in TargetPool : Read(load_doc(store, n, t))

Overflow_iter_docs == Read(iter_docs(store))

NextOverflow ==
    \/ Overflow_push_update
    \/ Overflow_load_doc
    \/ Overflow_iter_docs

SpecOverflow == InitOverflow /\ [][NextOverflow]_vars

\* what C31 says of an outcome p of pushing under the name n
PushKeepsLogAt(db, n, p) ==
    LET oid == OidOf(db, n)
        new == Keys(p.db) \ Keys(db)
    IN /\ \A i \in 1..Len(db) : \E j \in 1..Len(p.db) : p.db[j] = db[i]
       /\ p.ret = Ok =>
             /\ Cardinality(new) = 1
             /\ \A k \in new :
                   /\ IsUpdateKeyOf(k, oid)
                   /\ \A c \in Clocks(db, oid) : U32LT(c, ClockOf(k))

\* push never replaces the value of an entry of the log
PushNeverReplaces ==
    \A n \in Names, u \in UpdatePool :
        Mapped(store, n) =>
            \A p \in push_update_builds(store, n, u) :
                \A i \in 1..Len(store) : \E j \in 1..Len(p.db) : p.db[j] = store[i]

\* C31: push never overwrites an existing update-log entry: the key it
\* writes is absent from the store before the write, in every reachable log
\* state including one whose greatest clock is the 32-bit maximum, where
\* last_clock + 1 does not wrap around to a clock that is already present
\* or that sorts before existing entries.
PushNeverWraps ==
    \A n \in Names, u \in UpdatePool :
        Mapped(store, n) =>
            \A p \in push_update_builds(store, n, u) :
                PushKeepsLogAt(store, n, p)

----------------------------------------------------------------------------
(* C32, C33 *)
(* Push and flush transactions of several callers on one document.  Under  *)
(* an engine that lets transactions overlap, a transaction reads what is   *)
(* committed at the time of each of its reads (the adapters open their     *)
(* iterators with default ReadOptions, no snapshot is set), so the load of *)
(* a flush and its range deletion may read different stores.               *)

\* flush(oid) after its load: the Snapshot and StateVector of the loaded
\* document are written, then the update range found in db is removed, by
\* the range deletion of the adapter in use
flush_write(b, db, oid, doc) ==
    LET from == key_update(oid, U32_ZERO)
        to == key_update(oid, U32_MAX)
        written == insert_inner_v1(db, oid, encode_diff_v1(doc, EmptyStateVector),
                                   encode_sv(state_vector(doc)))
    IN IF b = "serialized" THEN remove_range(written, from, to)
       ELSE rocksdb_remove_range(written, from, to)

\* the callers holding a transaction
Active == { u \in TxnIds : txn[u].pc \in {"loaded", "open"} }

\* caller t runs push_update up to its commit
Overlap_push_update(t) ==
    /\ txn[t].pc \in {"idle", "aborted"}
    /\ backend = "serialized" => Active = {}
    /\ \E n \in Names, u \in UpdatePool :
        /\ Mapped(store, n)
        /\ txn[t].pc = "aborted" =>
              txn[t].call = "push_update" /\ n = txn[t].name /\ u = txn[t].update
        /\ txn' = [txn EXCEPT ![t] =
                    [pc |-> "open", call |-> "push_update",
                     name |-> n, update |-> u, doc |-> NewDoc,
                     oid |-> OidOf(store, n),
                     snap |-> store,
                     view |-> push_update(store, n, u).db,
                     at |-> nops,
                     with |-> Active \ {t}]]
    /\ UNCHANGED <<store, op, ret, nops, backend, pushed>>

\* caller t begins flush_doc: get_oid, then the load of flush(oid)
Overlap_flush_load(t) ==
    /\ txn[t].pc \in {"idle", "aborted"}
    /\ backend = "serialized" => Active = {}
    /\ \E n \in Names :
        /\ Mapped(store, n)
        /\ txn[t].pc = "aborted" => txn[t].call = "flush_doc" /\ n = txn[t].name
        /\ lmdb_load_doc(store, OidOf(store, n), NewDoc).loaded > 0
        /\ txn' = [txn EXCEPT ![t] =
                    [pc |-> "loaded", call |-> "flush_doc",
                     name |-> n, update |-> <<>>,
                     doc |-> lmdb_load_doc(store, OidOf(store, n), NewDoc).doc,
                     oid |-> OidOf(store, n),
                     snap |-> store,
                     view |-> store,
                     at |-> nops,
                     with |-> Active \ {t}]]
    /\ UNCHANGED <<store, op, ret, nops, backend, pushed>>

\* the flush of caller t goes on after its load, up to its commit
Overlap_flush_write(t) ==
    /\ txn[t].pc = "loaded"
    /\ txn' = [txn EXCEPT ![t] =
                [@ EXCEPT !.pc = "open",
                          !.snap = store,
                          !.view = flush_write(backend, store, txn[t].oid, txn[t].doc)]]
    /\ UNCHANGED <<store, op, ret, nops, backend, pushed>>

\* db_txn.commit() of caller t succeeds
Overlap_commit(t) ==
    /\ txn[t].pc = "open"
    /\ backend = "conflict_abort" => ~Conflicting(t)
    /\ store' = commit_writes(store, txn[t].snap, txn[t].view)
    /\ nops' = nops + 1
    /\ txn' = [txn EXCEPT ![t] = [@ EXCEPT !.pc = "committed"] @@ [cno |-> nops + 1]]
    /\ op' = <<txn[t].call, txn[t].name>>
    /\ ret' = Ok
    /\ pushed' = IF txn[t].call = "push_update"
                 THEN [pushed EXCEPT ![txn[t].name] = @ \cup {txn[t].update}]
                 ELSE pushed
    /\ UNCHANGED backend

\* db_txn.commit() of caller t fails on a write-write conflict; the caller
\* will run the call again in a new transaction
Overlap_abort(t) ==
    /\ txn[t].pc = "open"
    /\ backend = "conflict_abort" /\ Conflicting(t)
    /\ txn' = [u \in TxnIds |->
                IF u = t THEN [txn[t] EXCEPT !.pc = "aborted"]
                ELSE IF txn[u].pc = "idle" THEN txn[u]
                ELSE [txn[u] EXCEPT !.with = @ \ {t}]]
    /\ op' = <<txn[t].call, txn[t].name>>
    /\ ret' = Err
    /\ UNCHANGED <<store, nops, backend, pushed>>

\* one document exists, its log is empty
InitOverlap ==
    /\ \E n \in Names : store = insert_doc(EmptyDb, n, NewDoc).db
    /\ op = <<"new">>
    /\ ret = Ok
    /\ nops = 0
    /\ backend \in Backends
    /\ txn = NoTxn
    /\ pushed = NoPushes

NextOverlap ==
    \E t \in TxnIds :
        \/ Overlap_push_update(t)
        \/ Overlap_flush_load(t)
        \/ Overlap_flush_write(t)
        \/ Overlap_commit(t)
        \/ Overlap_abort(t)

\* callers pushing to and flushing one document in transactions that may
\* overlap
SpecOverlap == InitOverlap /\ [][NextOverlap]_vars

\* the committed pushes, the committed flushes
CommittedPushes == { t \in Committed : txn[t].call = "push_update" }
CommittedFlushes == { t \in Committed : txn[t].call = "flush_doc" }

\* the pushes of t and u are both in the log, under two keys
BothKept(t, u) ==
    \E e1 \in UpdateEntries(store, txn[t].oid), e2 \in UpdateEntries(store, txn[u].oid) :
        /\ get_key(e1) # get_key(e2)
        /\ get_value(e1) = txn[t].update
        /\ get_value(e2) = txn[u].update

\* what C32 says of the pushes t and u
PushesKeptAt(t, u) ==
    ( /\ t # u
      /\ txn[t].name = txn[u].name
      /\ Overlapped(t, u)
      /\ \A f \in CommittedFlushes : f \notin (txn[t].with \cup txn[u].with)
                                        /\ txn[f].cno < txn[t].cno
                                        /\ txn[f].cno < txn[u].cno )
    => BothKept(t, u)

\* under an engine that serializes writers or aborts on conflict, what C32
\* says holds
PushesKeptSerializing ==
    backend # "unserialized" =>
        \A t \in CommittedPushes, u \in CommittedPushes : PushesKeptAt(t, u)

\* C32: concurrent pushes are both kept: when two transactions that overlap
\* in time each push one update to the same document and both commit, the
\* log afterwards contains both updates under two distinct clocks; neither
\* push overwrites the other's entry.
ConcurrentPushesKept ==
    \A t \in CommittedPushes, u \in CommittedPushes : PushesKeptAt(t, u)

\* the blocks of the Snapshot the flush of f wrote
FlushedBlocks(f) ==
    decode_update(Unwrap(db_get(txn[f].view, key_doc(txn[f].oid))))

\* what C33 says of the flush of f: every log entry it deletes is in the
\* Snapshot it wrote
FoldsWhatItDeletesAt(f) ==
    LET dels == txn_dels(txn[f].snap, txn[f].view)
    IN \A i \in 1..Len(dels) :
          decode_update(get_value(dels[i])) \subseteq FlushedBlocks(f)

\* every update of a committed push is in the Snapshot or in the log
PushesVisible ==
    \A t \in CommittedPushes :
        decode_update(txn[t].update) \subseteq Merged(store, txn[t].oid)

\* under an engine that serializes writers or aborts on conflict, what C33
\* says holds
FlushKeepsUnfoldedSerializing ==
    backend # "unserialized" =>
        /\ \A f \in CommittedFlushes : FoldsWhatItDeletesAt(f)
        /\ PushesVisible

\* C33: flush never discards an update it did not fold: under any
\* interleaving of a flush transaction with push transactions on the same
\* document, every update-log entry deleted by the flush is reflected in
\* the Snapshot this flush wrote, so a push committed between the flush's
\* load and its log clear is still visible to a later load.
FlushKeepsUnfolded ==
    /\ \A f \in CommittedFlushes : FoldsWhatItDeletesAt(f)
    /\ PushesVisible

----------------------------------------------------------------------------
(* C34 *)
(* get_state_vector runs in two transactions: a read transaction that      *)
(* resolves the name and probes for pending updates, and, when the probe   *)
(* found some, a write transaction that flushes the OID the first one      *)
(* resolved.  Other callers' calls commit in between.                      *)

\* the caller of get_state_vector
SvCaller == CHOOSE t \in TxnIds : \A u \in TxnIds : t <= u

\* the read transaction of get_state_vector(n): get_oid, the StateVector
\* record, the probe.  Without a name entry, or with nothing pending, the
\* call returns here.
Sv_read ==
    /\ txn[SvCaller].pc = "idle"
    /\ \E n \in Names :
        LET o == get_oid(store, n)
            oid == IF IsSome(o) THEN Unwrap(o) ELSE U32_ZERO
            pending == IsSome(o) /\ has_pending_updates(store, oid)
        IN txn' = [txn EXCEPT ![SvCaller] =
                    [pc |-> IF pending THEN "read" ELSE "done",
                     name |-> n,
                     oid |-> oid,
                     flushed |-> FALSE,
                     snap |-> store,
                     before |-> store,
                     after |-> store,
                     result |-> get_state_vector_cached(store, n).ret]]
    /\ UNCHANGED <<store, op, ret, nops, backend, pushed>>

\* the write transaction of get_state_vector: flush_doc(&db, oid) with the
\* OID of the read transaction, commit, the merged document's state vector
Sv_flush ==
    /\ txn[SvCaller].pc = "read"
    /\ LET f == lmdb_flush_doc(store, txn[SvCaller].oid)
           sv == IF IsSome(f.doc) THEN Some(state_vector(Unwrap(f.doc))) ELSE None
       IN /\ store' = f.db
          /\ ret' = sv
          /\ txn' = [txn EXCEPT ![SvCaller] =
                      [@ EXCEPT !.pc = "done", !.flushed = TRUE,
                                !.before = store, !.after = f.db, !.result = sv]]
    /\ op' = <<"get_state_vector", txn[SvCaller].name>>
    /\ nops' = nops + 1
    /\ UNCHANGED <<backend, pushed>>

NextSv ==
    \/ Sv_read
    \/ Sv_flush
    \/ Call_insert_doc
    \/ Call_push_update
    \/ Call_clear_doc

\* one caller in get_state_vector, others inserting, pushing and clearing
SpecSv == Init /\ [][NextSv]_vars

\* the call of SvCaller has returned
SvDone == txn[SvCaller].pc = "done"

\* when the flush ran, the store mapped the name n to the OID oid
NamedAt(db, n, oid) == Mapped(db, n) /\ OidOf(db, n) = oid

\* a call no other caller's commit came in between of is the call of the
\* one-transaction model
SvUninterrupted ==
    (SvDone /\ txn[SvCaller].before = txn[SvCaller].snap) =>
        LET g == get_state_vector(txn[SvCaller].snap, txn[SvCaller].name)
        IN txn[SvCaller].after = g.db /\ txn[SvCaller].result = g.ret

\* C34: get_state_vector(name) reads the OID and the pending-update flag in
\* a read transaction and flushes in a second, later write transaction;
\* under any interleaving with clear and document creation by other callers
\* between the two transactions, it never flushes the records of, nor
\* returns a state vector computed from, a document other than `name`.
SvOfNamedDocument ==
    (SvDone /\ txn[SvCaller].flushed) =>
        LET c == txn[SvCaller]
        IN \A m \in Names \ {c.name} :
              (NamedAt(c.before, m, c.oid) /\ ~NamedAt(c.before, c.name, c.oid))
                  => (c.after = c.before /\ c.result = None)

----------------------------------------------------------------------------
(* C35 *)
(* A writing call as a transaction: new_transaction, its steps over what   *)
(* the transaction sees, commit.  Each step and the commit may fail; `?`   *)
(* then returns the error and the transaction is dropped uncommitted.      *)

\* the writing calls of the facade with their arguments
WritingCalls ==
    { <<"insert_doc", n, d>> : n \in Names, d \in InsertPool }
        \cup { <<"push_update", n, u>> : n \in Names, u \in UpdatePool }
        \cup { <<"flush_doc", n>> : n \in Names }
        \cup { <<"clear_doc", n>> : n \in Names }
        \cup { <<"insert_meta", n, k, v>> : n \in Names, k \in MetaKeys, v \in MetaValues }
        \cup { <<"remove_meta", n, k>> : n \in Names, k \in MetaKeys }

\* the call as the facade runs it when no step fails for the engine
facade(db, call) ==
    CASE call[1] = "insert_doc" -> insert_doc(db, call[2], call[3])
      [] call[1] = "push_update" -> push_update(db, call[2], call[3])
      [] call[1] = "flush_doc" -> flush_doc(db, call[2])
      [] call[1] = "clear_doc" -> clear_doc(db, call[2])
      [] call[1] = "insert_meta" -> insert_meta(db, call[2], call[3], call[4])
      [] call[1] = "remove_meta" -> remove_meta(db, call[2], call[3])

\* the deletions of a loop over the keys ks, one store per iteration
del_steps(db, ks) ==
    [i \in 1..Len(ks) |-> db_del_all(db, SubSeq(ks, 1, i))]

\* what the transaction of the call sees after each of its steps, commit
\* left out
transaction_views(db, call) ==
    LET c == get_or_create_oid(db, call[2])
        o == get_oid(db, call[2])
    IN CASE call[1] = "insert_doc" ->
              LET doc_state == encode_diff_v1(call[3], EmptyStateVector)
                  sv == encode_sv(state_vector(call[3]))
                  put1 == db_put(c.db, key_doc(c.oid), doc_state)
              IN << c.db, put1, db_put(put1, key_state_vector(c.oid), sv) >>
         [] call[1] = "push_update" ->
              LET update_key == key_update(c.oid, u32_inc(last_clock(c.db, c.oid)))
              IN IF update_key \in Keys(c.db) THEN << c.db, c.db >>
                 ELSE << c.db, c.db, db_put(c.db, update_key, call[3]) >>
         [] call[1] = "flush_doc" ->
              IF ~IsSome(o) THEN << db >>
              ELSE LET oid == Unwrap(o)
                       l == lmdb_load_doc(db, oid, NewDoc)
                       doc_state == encode_diff_v1(l.doc, EmptyStateVector)
                       sv == encode_sv(state_vector(l.doc))
                       put1 == db_put(db, key_doc(oid), doc_state)
                       put2 == db_put(put1, key_state_vector(oid), sv)
                   IN IF l.loaded = 0 THEN << db, db >>
                      ELSE << db, db, put1, put2 >>
                              \o del_steps(put2, keyrange(put2, key_update(oid, U32_ZERO),
                                                                key_update(oid, U32_MAX)))
         [] call[1] = "clear_doc" ->
              IF ~IsSome(db_get(db, key_oid(call[2]))) THEN << db >>
              ELSE LET oid == from_be_bytes(Unwrap(db_get(db, key_oid(call[2]))))
                       db1 == db_del(db, key_oid(call[2]))
                       end == key_doc_end(oid)
                       scanned == keyrange(db1, key_doc_start(oid), end)
                   IN << db1, db1 >>
                         \o del_steps(db1, SelectSeq(scanned,
                                                     LAMBDA v : ~KeyLT(end, get_key(v))))
         [] call[1] = "insert_meta" ->
              << c.db, db_put(c.db, key_meta(c.oid, call[3]), call[4]) >>
         [] call[1] = "remove_meta" ->
              IF ~IsSome(o) THEN << db >>
              ELSE << db, db_del(db, key_meta(Unwrap(o), call[3])) >>

\* the view of a transaction after the step k of the steps with the views
view_after(db, views, k) == IF k = 0 THEN db ELSE views[k]

\* a transaction whose every write reaches the committed store at once
transaction_autocommit(db, views, fail_at) ==
    IF fail_at = 0
    THEN [db |-> view_after(db, views, Len(views)), ret |-> Ok,
          view |-> view_after(db, views, Len(views))]
    ELSE [db |-> view_after(db, views, fail_at - 1), ret |-> Err,
          view |-> view_after(db, views, fail_at - 1)]

\* the transaction of a call over the committed store db: its step fail_at
\* fails (the one after the last is commit; 0: none).  db is what is
\* committed afterwards, view what the transaction saw at its end
transaction(db, views, fail_at) ==
    IF fail_at = 0
    THEN [db |-> view_after(db, views, Len(views)), ret |-> Ok,
          view |-> view_after(db, views, Len(views))]
    ELSE [db |-> db, ret |-> Err, view |-> view_after(db, views, fail_at - 1)]

\* the steps at which the call may fail: any, and 0 (none) unless the call
\* fails by itself, as a push whose key exists
fail_points(db, call) ==
    LET views == transaction_views(db, call)
    IN (1..(Len(views) + 1)) \cup (IF facade(db, call).ret = Err THEN {} ELSE {0})

\* the number of writing calls in a run of SpecFailing
MaxFailingOps == 2

\* the caller whose call the record of the last transaction is of
Caller == CHOOSE t \in TxnIds : \A u \in TxnIds : t <= u

\* a writing call runs, failing at one of its steps or at none
Call_transaction ==
    \E call \in WritingCalls :
        \E k \in fail_points(store, call) :
            LET r == transaction(store, transaction_views(store, call), k)
            IN /\ nops < MaxFailingOps
               /\ call[1] = "push_update" =>
                     LET c == get_or_create_oid(store, call[2])
                     IN Len(update_log(c.db, c.oid)) < MaxLog
               /\ store' = r.db
               /\ ret' = r.ret
               /\ op' = call
               /\ nops' = nops + 1
               /\ txn' = [txn EXCEPT ![Caller] =
                           [pc |-> IF k = 0 THEN "committed" ELSE "failed",
                            snap |-> store, view |-> r.view]]
               /\ UNCHANGED <<backend, pushed>>

NextFailing ==
    \/ Call_transaction
    \/ Call_load_doc
    \/ Call_iter_docs

\* the writing calls of the facade over an engine whose steps may fail
SpecFailing == Init /\ [][NextFailing]_vars

\* the views of a call whose steps all succeed end in what the facade's
\* call commits
ViewsAreTheCall ==
    \A call \in WritingCalls :
        0 \in fail_points(store, call) =>
            transaction(store, transaction_views(store, call), 0).db
                = facade(store, call).db

\* C35: each writing operation of the facade (insert, push, flush, clear,
\* metadata upsert/remove) performs all its reads and writes in one backend
\* transaction committed only after the last step succeeded: when any step
\* fails, none of its writes is visible afterwards, in particular no
\* name -> OID mapping allocated by the failed operation is left behind.
FailedCallLeavesNothing ==
    /\ txn[Caller].pc = "failed" =>
          /\ ret = Err
          /\ store = txn[Caller].snap
          /\ \A n \in Names : Mapped(store, n) <=> Mapped(txn[Caller].snap, n)
    /\ ViewsAreTheCall

\* a call for a new name has failed after it allocated the name's OID in
\* its transaction, past earlier committed calls
FailedCallLeavesNothingWitness ==
    /\ txn[Caller].pc = "failed"
    /\ nops > 1
    /\ \E n \in Names :
          /\ Mapped(txn[Caller].view, n)
          /\ ~Mapped(txn[Caller].snap, n)
          /\ op[2] = n

----------------------------------------------------------------------------
(* C36 *)

\* the OIDs the name entries of db map to
MappedOids(db) == { OidOf(db, n) : n \in MappedNames(db) }

\* the records of the document namespace under the OID
RecordsUnder(db, oid) ==
    { db[i] : i \in { j \in 1..Len(db) : IsDocKeyOf(get_key(db[j]), oid) } }

\* what C36 says of clear_doc for the name n: no record of its OID is left
ClearLeavesNoRecordAt(db, n) ==
    RecordsUnder(clear_doc(db, n).db, OidOf(db, n)) = {}

\* C36: no orphan records: in every committed state reachable by sequential
\* operations, every record of the document namespace carries an OID that is
\* the value of some current name -> OID mapping; after clear no record of
\* the cleared OID survives to be inherited by a later document that
\* receives the same OID.
NoOrphanRecords ==
    /\ StoredOids(store) \subseteq MappedOids(store)
    /\ \A n \in MappedNames(store) : ClearLeavesNoRecordAt(store, n)

\* a document with Snapshot, log entry and metadata is cleared and its OID
\* is the one the next new document receives, which starts without records
NoOrphanRecordsWitness ==
    \E n \in MappedNames(store), m \in Names \ MappedNames(store) :
        LET oid == OidOf(store, n)
            cleared == clear_doc(store, n).db
            c == get_or_create_oid(cleared, m)
        IN /\ HasSnapshot(store, oid)
           /\ LogSize(store, oid) > 0
           /\ \E e \in RecordsUnder(store, oid) : IsMetaKeyOf(get_key(e), oid)
           /\ c.oid = oid
           /\ RecordsUnder(c.db, oid) = {}

----------------------------------------------------------------------------
(* C37, C38 *)
(* The key codec over names, OIDs, clocks and meta keys at the edges of    *)
(* their ranges: keys are encoded and stored, and the order and the range  *)
(* scans of the store are compared with what the keys were encoded from.   *)

\* the number of keys stored in a run of SpecKeys
MaxKeys == 3

\* the byte strings of names and meta keys: empty, and bytes at both ends
EdgeBytes == {0, 255}
ByteStrings ==
    {<<>>} \cup { <<a>> : a \in EdgeBytes } \cup { <<a, b>> : a \in EdgeBytes, b \in EdgeBytes }

\* OIDs and clocks with a carry between their bytes, and the extremes
KeyOids == { U32(1), U32(256), U32_MAX }
KeyClocks == { U32_ZERO, U32(255), U32(256), <<0, 65535>>, <<1, 0>>, U32_MAX }

\* the key is stored and noted with what it was encoded from
StoreKey(key, value, from) ==
    /\ nops < MaxKeys
    /\ store' = db_put(store, key, value)
    /\ pushed' = { e \in pushed : e.key # key } \cup {[key |-> key] @@ from}
    /\ op' = <<"put", key>>
    /\ nops' = nops + 1
    /\ UNCHANGED <<ret, backend, txn>>

Keys_key_oid ==
    \E n \in ByteStrings, oid \in KeyOids :
        StoreKey(key_oid(n), to_be_bytes(oid),
                 [kind |-> "name", name |-> n, oid |-> oid, clock |-> U32_ZERO])

Keys_key_doc ==
    \E oid \in KeyOids :
        StoreKey(key_doc(oid), encode_update({}),
                 [kind |-> "doc", name |-> <<>>, oid |-> oid, clock |-> U32_ZERO])

Keys_key_state_vector ==
    \E oid \in KeyOids :
        StoreKey(key_state_vector(oid), encode_sv(0),
                 [kind |-> "state_vector", name |-> <<>>, oid |-> oid, clock |-> U32_ZERO])

Keys_key_update ==
    \E oid \in KeyOids, clock \in KeyClocks :
        StoreKey(key_update(oid, clock), encode_update({1}),
                 [kind |-> "update", name |-> <<>>, oid |-> oid, clock |-> clock])

Keys_key_meta ==
    \E oid \in KeyOids, k \in ByteStrings :
        StoreKey(key_meta(oid, k), <<118>>,
                 [kind |-> "meta", name |-> k, oid |-> oid, clock |-> U32_ZERO])

InitKeys ==
    /\ store = EmptyDb
    /\ op = <<"new">>
    /\ ret = Ok
    /\ nops = 0
    /\ backend = "serialized"
    /\ txn = NoTxn
    /\ pushed = {}

NextKeys ==
    \/ Keys_key_oid
    \/ Keys_key_doc
    \/ Keys_key_state_vector
    \/ Keys_key_update
    \/ Keys_key_meta

\* stores of encoded keys
SpecKeys == InitKeys /\ [][NextKeys]_vars

\* the stored keys of the name namespace, of the document namespace, of the
\* document namespace under the OID
NameKeys == { e \in pushed : e.kind = "name" }
DocKeys == pushed \ NameKeys
DocKeysOf(oid) == { e \in DocKeys : e.oid = oid }

\* the keys a scan of doc_bounds(oid) finds
InDocBounds(oid) == Keys(keyrange(store, key_doc_start(oid), key_doc_end(oid)))

\* C37: key layout keeps namespaces and documents apart: every
\* name-namespace key (for every name byte string) sorts before every
\* document-namespace key, and for every OID all of its Snapshot,
\* StateVector, update (every clock 0..u32 max) and metadata keys (every
\* meta key byte string) lie inside doc_bounds(oid) while no key of any
\* other OID and no name-namespace key lies inside those bounds.
KeyLayoutSeparates ==
    /\ \A a \in NameKeys, b \in DocKeys : KeyLT(a.key, b.key)
    /\ \A oid \in KeyOids : InDocBounds(oid) = { e.key : e \in DocKeysOf(oid) }
    /\ \A a \in NameKeys :
          Keys(clear_doc(store, a.name).db)
              = Keys(store) \ ({a.key} \cup { e.key : e \in DocKeysOf(a.oid) })

\* a name key, a metadata key whose meta key is all bytes 255 and a key of
\* another OID are stored
KeyLayoutSeparatesWitness ==
    \E a \in NameKeys, b \in DocKeys, c \in DocKeys :
        /\ b.kind = "meta" /\ b.name = <<255, 255>>
        /\ a.oid = b.oid
        /\ c.oid # b.oid
        /\ a.name = <<255, 255>>

\* the stored update keys of the OID
UpdateKeysOf(oid) == { e \in DocKeysOf(oid) : e.kind = "update" }

\* the greatest of the clocks the update keys of the OID were encoded from
GreatestClock(oid) ==
    CHOOSE c \in { e.clock : e \in UpdateKeysOf(oid) } :
        \A e \in UpdateKeysOf(oid) : e.clock = c \/ U32LT(e.clock, c)

\* C38: within one OID the byte order of update keys equals the numeric
\* order of their clocks (big-endian), for all pairs of 32-bit clocks; hence
\* the last entry of a bounded scan of the update range is the entry with
\* the greatest clock, and the clock push parses from the last key's bytes
\* equals the clock that key was written with.
UpdateKeyOrderIsClockOrder ==
    /\ \A oid \in KeyOids : \A a \in UpdateKeysOf(oid), b \in UpdateKeysOf(oid) :
          KeyLT(a.key, b.key) <=> U32LT(a.clock, b.clock)
    /\ \A oid \in KeyOids :
          UpdateKeysOf(oid) # {} =>
              LET iter == keyrange(store, key_update(oid, U32_ZERO),
                                   key_update(oid, U32_MAX))
              IN /\ Keys(iter) = { e.key : e \in UpdateKeysOf(oid) }
                 /\ get_key(iter[Len(iter)]) = key_update(oid, GreatestClock(oid))
                 /\ last_clock(store, oid) = GreatestClock(oid)

\* update keys of one OID are stored whose clocks compare one way by their
\* lowest byte and the other way as numbers, next to a key of another kind
UpdateKeyOrderIsClockOrderWitness ==
    \E oid \in KeyOids : \E a \in UpdateKeysOf(oid), b \in UpdateKeysOf(oid) :
        /\ a.clock = U32(255)
        /\ b.clock = U32(256)
        /\ Cardinality(DocKeysOf(oid)) = 3
        /\ last_clock(store, oid) = U32(256)

----------------------------------------------------------------------------
(* C39 *)

\* KVStore::iter_range of the LMDB adapter, consumed to its end
lmdb_iter_range(db, from, to) == LmdbRange_next(keyrange(db, from, to), to)

\* the two adapters yield the same entries and delete the same keys for the
\* bounds (from, to)
AdaptersAgreeAt(db, from, to) ==
    /\ lmdb_iter_range(db, from, to) = rocksdb_iter_range(db, from, to, 0)
    /\ remove_range(db, from, to) = rocksdb_remove_range(db, from, to)

\* the bounds the document store passes: stored keys and the ends of the
\* update and metadata ranges of the stored OIDs
RangeBounds(db) ==
    Keys(db) \cup { key_update(oid, U32_MAX) : oid \in StoredOids(db) }
             \cup { key_meta_end(oid) : oid \in StoredOids(db) }

\* the adapters agree whenever no stored key is equal to `to`
AdaptersAgreeBelowTo ==
    \A from \in RangeBounds(store), to \in RangeBounds(store) \ Keys(store) :
        AdaptersAgreeAt(store, from, to)

\* C39: the LMDB and RocksDB adapters implement the same range contract:
\* for the same stored keys and the same (from, to) bounds, iter_range of
\* both yields the same sequence of entries and remove_range of both
\* deletes the same keys, including when a stored key is equal to `to`.
AdaptersAgree ==
    \A from \in RangeBounds(store), to \in RangeBounds(store) :
        AdaptersAgreeAt(store, from, to)

----------------------------------------------------------------------------
(* C40 *)

\* the document of the name n exists through metadata only: a name entry
\* and metadata under its OID, neither Snapshot nor update-log entry
MetadataOnly(db, n) ==
    /\ Mapped(db, n)
    /\ ~HasSnapshot(db, OidOf(db, n))
    /\ LogSize(db, OidOf(db, n)) = 0
    /\ MetaPairs(db, OidOf(db, n)) # {}

\* the names document enumeration lists
Listed(db) == LET r == iter_docs(db).ret IN { r[i] : i \in 1..Len(r) }

\* C40: a document that exists only through metadata (name -> OID mapping
\* but neither Snapshot nor update-log entry) is reported as absent by the
\* CRDT read path although enumeration lists it: load returns false and
\* get_diff returns None; get_diff returns Some exactly when load applied
\* at least one record.
MetadataOnlyIsAbsent ==
    /\ \A n \in Names :
          MetadataOnly(store, n) =>
              /\ n \in Listed(store)
              /\ \A t \in TargetPool :
                    /\ ~load_doc(store, n, t).ret.found
                    /\ load_doc(store, n, t).ret.doc = t
              /\ \A sv \in SvPool : get_diff(store, n, sv).ret = None
    /\ \A n \in Names, sv \in SvPool :
          IsSome(get_diff(store, n, sv).ret)
              <=> Len(load_doc(store, n, NewDoc).ret.applied) >= 1

\* a metadata-only document is stored next to a document with a Snapshot,
\* for which get_diff returns Some
MetadataOnlyIsAbsentWitness ==
    \E n \in Names, m \in Names :
        /\ MetadataOnly(store, n)
        /\ Mapped(store, m)
        /\ HasSnapshot(store, OidOf(store, m))
        /\ \A sv \in SvPool : IsSome(get_diff(store, m, sv).ret)
        /\ get_diff(store, n, 0).ret = None

====
